---- MODULE Spec2Model ----
(***************************************************************************)
(* A model of the in-process cache: the skip list with rank spans, the     *)
(* ordered collection (ZSet), the compact integer set, the TTL manager,    *)
(* the usage tracker and the cache coordinator.                            *)
(*                                                                         *)
(* Strings are TLA+ strings; x.length is Len(x).  JavaScript null and      *)
(* undefined results are the empty tuple Null and a present value v is     *)
(* the one-element tuple <<v>>, so that results of one operation always    *)
(* have one shape.  Array indices are 0-based as in the source.            *)
(***************************************************************************)
EXTENDS Integers, Sequences, FiniteSets, TLC

VARIABLES
    zs,      \* a stand-alone ZSet object: [dict, skiplist]
    zret,    \* what the last call on zs returned
    dict,    \* a stand-alone Dictionary object:
             \* [ht0, ht1, rehashidx, rehashStepSize, rehashIterator]
    \* the Cache object
    store,               \* Dictionary: key -> CacheEntry
    ttl,                 \* TTLManager: [expirations, keyIterator, pendingDeletes, interval]
    usage,               \* UsageTracker: [metadata, decayTimer]
    currentMemoryUsed,
    evictionPool,        \* array of keys
    operationCount,
    stats,               \* [hits, misses, evictions, expirations, operations]
    evictionPolicy,      \* "lru" or "lfu", fixed by the constructor
    maxmemory,           \* the budget in bytes, fixed by the constructor
    now,                 \* Date.now()
    ret,                 \* what the last public call returned or threw
    events               \* history: the entries the last step destroyed, in order

zvars == <<zs, zret>>

cvars == <<store, ttl, usage, currentMemoryUsed, evictionPool, operationCount,
           stats, evictionPolicy, maxmemory, now, ret, events>>

vars == <<zs, zret, dict, store, ttl, usage, currentMemoryUsed, evictionPool,
          operationCount, stats, evictionPolicy, maxmemory, now, ret, events>>

Null == <<>>

Some(v) == <<v>>

Min2(a, b) == IF a < b THEN a ELSE b

Max2(a, b) == IF a > b THEN a ELSE b

\* const x = ...: x is computed once and the code that follows reads it
With(x, Op(_)) == Op(x)

\* the same for a value: Op applied to the value of x
Bind(x, Op(_)) == CHOOSE r \in {Op(v) : v \in {x}} : TRUE

(***************************************************************************)
(* Bounds of the model.                                                    *)
(***************************************************************************)

\* randomLevel() draws a level in 1..maxLevel; the model draws 1..MaxDrawnLevel
MaxDrawnLevel == 2


\* The members of ordered collections, listed in ascending order of
\* JavaScript's string comparison (UTF-16 code units): "a" < "ab" < "b".
MemberOrder == <<"a", "ab", "b">>

Members == {MemberOrder[i] : i \in 1..Len(MemberOrder)}

\* the scores calls are made with; range queries take min and max among them
Scores == {1, 2}

\* the limit argument: omitted (Null) or a number
Limits == {Null, Some(0), Some(1), Some(2)}

(***************************************************************************)
(* utils: compareScoreMember                                               *)
(***************************************************************************)

StrIndex(s) == CHOOSE i \in 1..Len(MemberOrder) : MemberOrder[i] = s

\* member1 < member2 on JavaScript strings
StrLess(s1, s2) == StrIndex(s1) < StrIndex(s2)

compareScoreMember(score1, member1, score2, member2) ==
    IF score1 # score2 THEN score1 - score2
    ELSE IF StrLess(member1, member2) THEN -1
    ELSE IF StrLess(member2, member1) THEN 1
    ELSE 0

(***************************************************************************)
(* SkipList.  Nodes live in an arena: node 0 is the header, a new node     *)
(* takes the smallest free index, NIL is the null pointer.  The header's   *)
(* score (-Infinity in the source) is never read.                          *)
(***************************************************************************)

maxLevel == 32

NIL == -1

HEADER == 0

\* The header has maxLevel levels; no call reads or writes a level that was
\* never drawn, so the model keeps the header's first HeaderLevel levels.
HeaderLevel == Min2(MaxDrawnLevel, maxLevel)

LevelIdx == 0..(HeaderLevel - 1)

\* the levels randomLevel() is drawn from
Levels == 1..HeaderLevel

SkipListNode(score, member, level) ==
    [score |-> score, member |-> member, level |-> level,
     forward |-> [i \in 0..(level - 1) |-> NIL],
     span |-> [i \in 0..(level - 1) |-> 0],
     backward |-> NIL]

NewSkipList ==
    [level |-> 1, tail |-> NIL, length |-> 0,
     nodes |-> [n \in {HEADER} |-> SkipListNode(0, "", HeaderLevel)]]

\* while (x.forward[i] && compare(x.forward[i], (score, member)) < 0)
\*     { rank[i] += x.span[i]; x = x.forward[i] }
RECURSIVE SlAdvance(_, _, _, _, _, _)
SlAdvance(sl, x, i, r, score, member) ==
    LET f == sl.nodes[x].forward[i] IN
    IF f # NIL /\ compareScoreMember(sl.nodes[f].score, sl.nodes[f].member,
                                     score, member) < 0
    THEN SlAdvance(sl, f, i, r + sl.nodes[x].span[i], score, member)
    ELSE [x |-> x, r |-> r]

\* for (i = level - 1; i >= 0; i--): the walk that fills update[] and rank[]
RECURSIVE SlDescend(_, _, _, _, _, _, _)
SlDescend(sl, i, x, r, score, member, acc) ==
    IF i < 0 THEN acc
    ELSE LET a == SlAdvance(sl, x, i, r, score, member) IN
         SlDescend(sl, i - 1, a.x, a.r, score, member,
                   [update |-> [acc.update EXCEPT ![i] = a.x],
                    rank |-> [acc.rank EXCEPT ![i] = a.r]])

SlWalk(sl, score, member) ==
    SlDescend(sl, sl.level - 1, HEADER, 0, score, member,
              [update |-> [i \in LevelIdx |-> NIL], rank |-> [i \in LevelIdx |-> 0]])

\* The arena index of a new node: the member's own index when it is free,
\* else the smallest free index above those (object identity has no meaning
\* beyond being distinct from every live node).
FreeNode(sl, member) ==
    IF StrIndex(member) \notin DOMAIN sl.nodes THEN StrIndex(member)
    ELSE CHOOSE n \in (Len(MemberOrder) + 1)..(Len(MemberOrder) + Cardinality(DOMAIN sl.nodes)) :
            n \notin DOMAIN sl.nodes

SkipList_insert(sl, score, member, newLevel) ==
    LET w == SlWalk(sl, score, member)
        raised == {i \in LevelIdx : sl.level <= i /\ i < newLevel}
        update == [i \in LevelIdx |-> IF i \in raised THEN HEADER ELSE w.update[i]]
        rank == [i \in LevelIdx |-> IF i \in raised THEN 0 ELSE w.rank[i]]
        level1 == IF newLevel > sl.level THEN newLevel ELSE sl.level
        \* update[i].span[i] = this.length on the raised levels
        nodes1 == [sl.nodes EXCEPT ![HEADER].span =
                      [i \in LevelIdx |-> IF i \in raised THEN sl.length ELSE @[i]]]
        new == FreeNode(sl, member)
        newNode == [score |-> score, member |-> member, level |-> newLevel,
                    forward |-> [i \in 0..(newLevel - 1) |-> nodes1[update[i]].forward[i]],
                    span |-> [i \in 0..(newLevel - 1) |->
                                 nodes1[update[i]].span[i] - (rank[0] - rank[i])],
                    backward |-> IF update[0] = HEADER THEN NIL ELSE update[0]]
        next0 == newNode.forward[0]
        nodes2 == [n \in DOMAIN nodes1 \cup {new} |->
                    IF n = new THEN newNode
                    ELSE [nodes1[n] EXCEPT
                            !.forward = [i \in DOMAIN @ |->
                                IF i < newLevel /\ update[i] = n THEN new ELSE @[i]],
                            !.span = [i \in DOMAIN @ |->
                                IF update[i] # n THEN @[i]
                                ELSE IF i < newLevel THEN (rank[0] - rank[i]) + 1
                                ELSE IF i < level1 THEN @[i] + 1
                                ELSE @[i]],
                            !.backward = IF n = next0 THEN new ELSE @]]
    IN [level |-> level1,
        tail |-> IF next0 = NIL THEN new ELSE sl.tail,
        length |-> sl.length + 1,
        nodes |-> nodes2]

\* while (this.level > 1 && !this.header.forward[this.level - 1]) this.level--
RECURSIVE SlTrimLevel(_, _)
SlTrimLevel(nodes, level) ==
    IF level > 1 /\ nodes[HEADER].forward[level - 1] = NIL
    THEN SlTrimLevel(nodes, level - 1)
    ELSE level

\* delete that leaves the spans of the levels above the node as they were
SkipList_delete_KeepSpan(sl, score, member) ==
    LET w == SlWalk(sl, score, member)
        update == w.update
        x == sl.nodes[update[0]].forward[0]
    IN IF x = NIL \/ sl.nodes[x].score # score \/ sl.nodes[x].member # member
       THEN [sl |-> sl, found |-> FALSE]
       ELSE
       LET xn == sl.nodes[x]
           nodes1 == [n \in DOMAIN sl.nodes \ {x} |->
                        [sl.nodes[n] EXCEPT
                           !.forward = [i \in DOMAIN @ |->
                               IF i < sl.level /\ update[i] = n /\ @[i] = x
                               THEN xn.forward[i] ELSE @[i]],
                           !.span = [i \in DOMAIN @ |->
                               IF i < sl.level /\ update[i] = n
                               THEN (IF sl.nodes[n].forward[i] = x
                                     THEN @[i] + xn.span[i] - 1
                                     ELSE @[i])
                               ELSE @[i]],
                           !.backward = IF n = xn.forward[0] /\ n # HEADER
                                        THEN xn.backward ELSE @]]
       IN [sl |-> [level |-> SlTrimLevel(nodes1, sl.level),
                   tail |-> IF xn.forward[0] = NIL THEN xn.backward ELSE sl.tail,
                   length |-> sl.length - 1,
                   nodes |-> nodes1],
           found |-> TRUE]

\* the list after delete(score, member), and whether the pair was found
SkipList_delete(sl, score, member) ==
    LET w == SlWalk(sl, score, member)
        update == w.update
        x == sl.nodes[update[0]].forward[0]
    IN IF x = NIL \/ sl.nodes[x].score # score \/ sl.nodes[x].member # member
       THEN [sl |-> sl, found |-> FALSE]
       ELSE
       LET xn == sl.nodes[x]
           nodes1 == [n \in DOMAIN sl.nodes \ {x} |->
                        [sl.nodes[n] EXCEPT
                           !.forward = [i \in DOMAIN @ |->
                               IF i < sl.level /\ update[i] = n /\ @[i] = x
                               THEN xn.forward[i] ELSE @[i]],
                           !.span = [i \in DOMAIN @ |->
                               IF i < sl.level /\ update[i] = n
                               THEN (IF sl.nodes[n].forward[i] = x
                                     THEN @[i] + xn.span[i] - 1
                                     ELSE @[i] - 1)
                               ELSE @[i]],
                           !.backward = IF n = xn.forward[0] /\ n # HEADER
                                        THEN xn.backward ELSE @]]
       IN [sl |-> [level |-> SlTrimLevel(nodes1, sl.level),
                   tail |-> IF xn.forward[0] = NIL THEN xn.backward ELSE sl.tail,
                   length |-> sl.length - 1,
                   nodes |-> nodes1],
           found |-> TRUE]

\* getRank: 0-based rank of (score, member), -1 if not found
RECURSIVE SlRankWalk(_, _, _, _, _, _)
SlRankWalk(sl, i, x, rank, score, member) ==
    IF i < 0 THEN -1
    ELSE LET f == sl.nodes[x].forward[i] IN
         IF f # NIL /\ compareScoreMember(sl.nodes[f].score, sl.nodes[f].member,
                                          score, member) <= 0
         THEN LET rank1 == rank + sl.nodes[x].span[i] IN
              IF sl.nodes[f].score = score /\ sl.nodes[f].member = member
              THEN rank1 - 1
              ELSE SlRankWalk(sl, i, f, rank1, score, member)
         ELSE SlRankWalk(sl, i - 1, x, rank, score, member)

\* getRank that returns the 1-based rank the walk accumulates
SkipList_getRank_OneBased(sl, score, member) ==
    LET r == SlRankWalk(sl, sl.level - 1, HEADER, 0, score, member) IN
    IF r = -1 THEN -1 ELSE r + 1

SkipList_getRank(sl, score, member) ==
    SlRankWalk(sl, sl.level - 1, HEADER, 0, score, member)

\* while (x && x.score < min) x = x.forward[0]
RECURSIVE SlSkipBelow(_, _, _)
SlSkipBelow(sl, x, min) ==
    IF x # NIL /\ sl.nodes[x].score < min
    THEN SlSkipBelow(sl, sl.nodes[x].forward[0], min)
    ELSE x

\* while (x && x.score <= max && result.length < limit) { push; x = x.forward[0] }
\* limit is Null for Infinity
RECURSIVE SlCollect(_, _, _, _, _)
SlCollect(sl, x, max, limit, result) ==
    IF x # NIL /\ sl.nodes[x].score <= max /\ (limit = Null \/ Len(result) < limit[1])
    THEN SlCollect(sl, sl.nodes[x].forward[0], max, limit,
                   Append(result, <<sl.nodes[x].member, sl.nodes[x].score>>))
    ELSE result

\* getByScoreRange whose upper bound is exclusive
SkipList_getByScoreRange_Exclusive(sl, min, max, limit) ==
    SlCollect(sl, SlSkipBelow(sl, sl.nodes[HEADER].forward[0], min), max - 1, limit, <<>>)

SkipList_getByScoreRange(sl, min, max, limit) ==
    SlCollect(sl, SlSkipBelow(sl, sl.nodes[HEADER].forward[0], min), max, limit, <<>>)

(***************************************************************************)
(* ZSet: a member -> score map beside the skip list.                       *)
(***************************************************************************)

NewZSet == [dict |-> <<>>, skiplist |-> NewSkipList]

MapSet(map, k, v) == [x \in DOMAIN map \cup {k} |-> IF x = k THEN v ELSE map[x]]

MapDelete(map, k) == [x \in DOMAIN map \ {k} |-> map[x]]

\* zadd that, on a score change, inserts the new pair and leaves the old node
\* in the skip list
ZSet_zadd_KeepOldNode(z, member, score, newLevel) ==
    IF member \in DOMAIN z.dict /\ z.dict[member] = score
    THEN [z |-> z, added |-> FALSE]
    ELSE [z |-> [dict |-> MapSet(z.dict, member, score),
                 skiplist |-> SkipList_insert(z.skiplist, score, member, newLevel)],
          added |-> member \notin DOMAIN z.dict]

\* zadd that, on a score change, writes the map and leaves the skip list alone
ZSet_zadd_MapOnly(z, member, score, newLevel) ==
    IF member \in DOMAIN z.dict
    THEN [z |-> [z EXCEPT !.dict = MapSet(@, member, score)], added |-> FALSE]
    ELSE [z |-> [dict |-> MapSet(z.dict, member, score),
                 skiplist |-> SkipList_insert(z.skiplist, score, member, newLevel)],
          added |-> TRUE]

\* the set after zadd(member, score), and the boolean it returns; newLevel is
\* the level randomLevel() gives the node if one is inserted
ZSet_zadd(z, member, score, newLevel) ==
    IF member \in DOMAIN z.dict
    THEN IF z.dict[member] = score
         THEN [z |-> z, added |-> FALSE]
         ELSE [z |-> [dict |-> MapSet(z.dict, member, score),
                      skiplist |-> SkipList_insert(
                          SkipList_delete(z.skiplist, z.dict[member], member).sl,
                          score, member, newLevel)],
               added |-> FALSE]
    ELSE [z |-> [dict |-> MapSet(z.dict, member, score),
                 skiplist |-> SkipList_insert(z.skiplist, score, member, newLevel)],
          added |-> TRUE]

\* zrem that reports a removal whether or not the member was there
ZSet_zrem_AlwaysTrue(z, member) ==
    IF member \notin DOMAIN z.dict
    THEN [z |-> z, removed |-> TRUE]
    ELSE [z |-> [dict |-> MapDelete(z.dict, member),
                 skiplist |-> SkipList_delete(z.skiplist, z.dict[member], member).sl],
          removed |-> TRUE]

ZSet_zrem(z, member) ==
    IF member \notin DOMAIN z.dict
    THEN [z |-> z, removed |-> FALSE]
    ELSE [z |-> [dict |-> MapDelete(z.dict, member),
                 skiplist |-> SkipList_delete(z.skiplist, z.dict[member], member).sl],
          removed |-> TRUE]

ZSet_zscore(z, member) ==
    IF member \in DOMAIN z.dict THEN Some(z.dict[member]) ELSE Null

ZSet_zrank(z, member) ==
    IF member \notin DOMAIN z.dict THEN Null
    ELSE Some(SkipList_getRank(z.skiplist, z.dict[member], member))

ZSet_zrangeByScore(z, min, max, limit) ==
    SkipList_getByScoreRange(z.skiplist, min, max, limit)

ZSet_zcard(z) == Cardinality(DOMAIN z.dict)

(***************************************************************************)
(* IntSet.  A set member is [int, v]: the integer v, or the non-integer    *)
(* value number v (a string, a fraction).  data is the sorted array.       *)
(***************************************************************************)

\* the cap of new IntSet(): maxSize, 512 in the source, scaled down here
IntSetMaxSize == 2

IntMember(n) == [int |-> TRUE, n |-> n, s |-> ""]

OtherMember(s) == [int |-> FALSE, n |-> 0, s |-> s]

InsertAt(seq, idx, x) ==
    [j \in 1..(Len(seq) + 1) |->
        IF j <= idx THEN seq[j] ELSE IF j = idx + 1 THEN x ELSE seq[j - 1]]

\* the binary search of add(): [found, low]; indices are 0-based
RECURSIVE IntSetSearch(_, _, _, _)
IntSetSearch(data, value, low, high) ==
    IF low < high
    THEN LET mid == (low + high) \div 2 IN
         IF data[mid + 1] = value THEN [found |-> TRUE, low |-> low]
         ELSE IF data[mid + 1] < value THEN IntSetSearch(data, value, mid + 1, high)
         ELSE IntSetSearch(data, value, low, mid)
    ELSE [found |-> FALSE, low |-> low]

\* add(value) without the size threshold
IntSet_add_NoCap(data, value) ==
    IF ~value.int THEN [data |-> data, result |-> "upgrade"]
    ELSE LET f == IntSetSearch(data, value.n, 0, Len(data)) IN
         IF f.found THEN [data |-> data, result |-> "false"]
         ELSE [data |-> InsertAt(data, f.low, value.n), result |-> "true"]

\* add(value) that tests the size threshold before it searches
IntSet_add_CapFirst(data, value) ==
    IF ~value.int THEN [data |-> data, result |-> "upgrade"]
    ELSE IF Len(data) >= IntSetMaxSize THEN [data |-> data, result |-> "upgrade"]
    ELSE LET f == IntSetSearch(data, value.n, 0, Len(data)) IN
         IF f.found THEN [data |-> data, result |-> "false"]
         ELSE [data |-> InsertAt(data, f.low, value.n), result |-> "true"]

\* add(value): the array afterwards and the result, "upgrade", "true" or "false"
IntSet_add(data, value) ==
    IF ~value.int THEN [data |-> data, result |-> "upgrade"]
    ELSE LET f == IntSetSearch(data, value.n, 0, Len(data)) IN
         IF f.found THEN [data |-> data, result |-> "false"]
         ELSE IF Len(data) >= IntSetMaxSize THEN [data |-> data, result |-> "upgrade"]
         ELSE [data |-> InsertAt(data, f.low, value.n), result |-> "true"]

\* upgradeToSet() that starts from an empty Set
IntSet_upgradeToSet_Empty(data) == <<>>

\* upgradeToSet(): new Set(data), a Set in insertion order
IntSet_upgradeToSet(data) == [j \in 1..Len(data) |-> IntMember(data[j])]

SeqHas(seq, x) == \E j \in 1..Len(seq) : seq[j] = x

(***************************************************************************)
(* TTLManager.  expirations is the Map in insertion order, a sequence of   *)
(* [key, at].  keyIterator is Null or <<n>>: a live Map iterator that has  *)
(* passed n of the entries now in the Map (an entry deleted behind it      *)
(* lowers n, an entry added is appended in front of it).                   *)
(***************************************************************************)

\* pendingDeletes.length >= 100 flushes the buffer; scaled down here
PendingFlushAt == 3

NewTTL == [expirations |-> <<>>, keyIterator |-> Null, pendingDeletes |-> <<>>,
           interval |-> FALSE]

ExpIndex(t, key) ==
    IF \E j \in 1..Len(t.expirations) : t.expirations[j].key = key
    THEN CHOOSE j \in 1..Len(t.expirations) : t.expirations[j].key = key
    ELSE 0

TTL_has(t, key) == ExpIndex(t, key) # 0

TTL_getExpiration(t, key) == t.expirations[ExpIndex(t, key)].at

TTL_set(t, key, expiresAtMs) ==
    IF TTL_has(t, key)
    THEN [t EXCEPT !.expirations[ExpIndex(t, key)].at = expiresAtMs]
    ELSE [t EXCEPT !.expirations = Append(@, [key |-> key, at |-> expiresAtMs])]

TTL_delete(t, key) ==
    LET j == ExpIndex(t, key) IN
    IF j = 0 THEN t
    ELSE [t EXCEPT
            !.expirations = [x \in 1..(Len(@) - 1) |-> IF x < j THEN @[x] ELSE @[x + 1]],
            !.keyIterator = IF @ # Null /\ j <= @[1] THEN Some(@[1] - 1) ELSE @]

TTL_isExpired(t, key) == TTL_has(t, key) /\ now >= TTL_getExpiration(t, key)

\* the for loop of sampleAndPurge: i of k keys visited so far
RECURSIVE TTLSampleLoop(_, _, _, _)
TTLSampleLoop(t, i, k, expiredCount) ==
    IF i >= k THEN [t |-> t, expiredCount |-> expiredCount]
    ELSE LET pos == t.keyIterator[1]
             \* next.done: wrap around to a fresh iterator and take its first key
             idx == IF pos >= Len(t.expirations) THEN 1 ELSE pos + 1
             e == t.expirations[idx]
             hit == e.at # 0 /\ now >= e.at
         IN TTLSampleLoop(
                [t EXCEPT !.keyIterator = Some(idx),
                          !.pendingDeletes = IF hit THEN Append(@, e.key) ELSE @],
                i + 1, k, IF hit THEN expiredCount + 1 ELSE expiredCount)

(***************************************************************************)
(* UsageTracker.                                                           *)
(***************************************************************************)

\* decayInterval, 60000 ms in the source, in the model's time unit
DecayInterval == 2

decayAmount == 1

NewUsage == [metadata |-> <<>>, decayTimer |-> evictionPolicy = "lfu"]

\* touch(key) without the test meta.freq < 255
Usage_touch_NoCap(u, key, inc) ==
    LET meta0 == IF key \in DOMAIN u.metadata THEN u.metadata[key]
                 ELSE [lastAccess |-> now, freq |-> 0, lastDecay |-> now]
        bump == evictionPolicy = "lfu" /\ (inc \/ meta0.freq = 0)
        meta1 == [meta0 EXCEPT !.lastAccess = now,
                               !.freq = IF bump THEN @ + 1 ELSE @]
    IN [u EXCEPT !.metadata = MapSet(@, key, meta1)]

\* touch(key); inc says whether Math.random() < 1 / (1 + freq) came out true,
\* which it always does at freq = 0
Usage_touch(u, key, inc) ==
    LET meta0 == IF key \in DOMAIN u.metadata THEN u.metadata[key]
                 ELSE [lastAccess |-> now, freq |-> 0, lastDecay |-> now]
        bump == evictionPolicy = "lfu" /\ (inc \/ meta0.freq = 0) /\ meta0.freq < 255
        meta1 == [meta0 EXCEPT !.lastAccess = now,
                               !.freq = IF bump THEN @ + 1 ELSE @]
    IN [u EXCEPT !.metadata = MapSet(@, key, meta1)]

Usage_delete(u, key) == [u EXCEPT !.metadata = MapDelete(@, key)]

(***************************************************************************)
(* Cache: configuration, entries and memory accounting.                    *)
(***************************************************************************)

\* options.maxmemory || 100_000_000
DefaultMemory == 100000000

\* the maxmemory option of a cache that has to evict
TightMemory == 120

\* options.evictionSampleSize || 8
evictionSampleSize == 8

\* LAZY_EXPIRE_FREQ, 100 in the source, scaled down here
LAZY_EXPIRE_FREQ == 2

\* the number of public operations a run of the model makes
MaxOps == 3

\* Date.now() runs from 0 to MaxTime
MaxTime == 2

Entry(type, sval, zval, elems, encoding, memoryUsed) ==
    [type |-> type, sval |-> sval, zval |-> zval, elems |-> elems,
     encoding |-> encoding, memoryUsed |-> memoryUsed]

estimateMemberSize(member) == Len(member) * 2 + 80

\* _calculateMemoryUsed(key, entry); entry.memoryUsed is not read
calculateMemoryUsed(key, entry) ==
    Len(key) * 2 +
    (IF entry.type = "string" THEN Len(entry.sval) * 2 + 48
     ELSE IF entry.type = "zset" THEN ZSet_zcard(entry.zval) * 80
     ELSE IF entry.encoding = "intset" THEN Len(entry.elems) * 8
     ELSE Len(entry.elems) * 40)

WithMemory(key, entry) == [entry EXCEPT !.memoryUsed = calculateMemoryUsed(key, entry)]

dynamicPoolSize(c) ==
    LET size == Cardinality(DOMAIN c.store) IN
    IF size < 1000 THEN 8 ELSE IF size < 10000 THEN 16 ELSE IF size < 100000 THEN 32 ELSE 64

\* The Cache object as one value; events starts empty at every step.
CacheState ==
    [store |-> store, ttl |-> ttl, usage |-> usage,
     currentMemoryUsed |-> currentMemoryUsed, evictionPool |-> evictionPool,
     operationCount |-> operationCount, stats |-> stats, events |-> <<>>]

Ret(op, key, arg, val, err) ==
    [op |-> op, key |-> key, arg |-> arg, val |-> val, err |-> err]

Commit(c, r) ==
    /\ store' = c.store
    /\ ttl' = c.ttl
    /\ usage' = c.usage
    /\ currentMemoryUsed' = c.currentMemoryUsed
    /\ evictionPool' = c.evictionPool
    /\ operationCount' = c.operationCount
    /\ stats' = c.stats
    /\ events' = c.events
    /\ ret' = r
    /\ UNCHANGED <<evictionPolicy, maxmemory, now, zs, zret, dict>>

(***************************************************************************)
(* Cache: the private helpers.                                             *)
(***************************************************************************)

\* _deleteKey that forgets to drop the key's usage metadata
Cache_deleteKey_KeepUsage(c, key) ==
    [c EXCEPT !.currentMemoryUsed =
                 IF key \in DOMAIN c.store THEN @ - c.store[key].memoryUsed ELSE @,
              !.store = MapDelete(@, key),
              !.ttl = TTL_delete(@, key)]

\* _deleteKey that forgets this.ttl.delete(key)
Cache_deleteKey_KeepTtl(c, key) ==
    [c EXCEPT !.currentMemoryUsed =
                 IF key \in DOMAIN c.store THEN @ - c.store[key].memoryUsed ELSE @,
              !.store = MapDelete(@, key),
              !.usage = Usage_delete(@, key)]

\* _deleteKey that leaves the memory counter alone
Cache_deleteKey_NoRefund(c, key) ==
    [c EXCEPT !.store = MapDelete(@, key),
              !.ttl = TTL_delete(@, key),
              !.usage = Usage_delete(@, key)]

Cache_deleteKey(c, key) ==
    LET mem == IF key \in DOMAIN c.store /\ c.store[key].memoryUsed # 0
               THEN c.currentMemoryUsed - c.store[key].memoryUsed
               ELSE c.currentMemoryUsed
    IN [c EXCEPT !.currentMemoryUsed = mem,
                 !.store = MapDelete(@, key),
                 !.ttl = TTL_delete(@, key),
                 !.usage = Usage_delete(@, key)]

\* history: what _deleteKey(key) is about to destroy, and on whose behalf
Event(c, key, cause) ==
    [cause |-> cause, key |-> key,
     live |-> key \in DOMAIN c.store,
     hadTtl |-> TTL_has(c.ttl, key),
     due |-> TTL_isExpired(c.ttl, key),
     memoryUsed |-> IF key \in DOMAIN c.store THEN c.store[key].memoryUsed ELSE 0,
     memoryBefore |-> c.currentMemoryUsed]

Destroy(c, key, cause) ==
    [Cache_deleteKey(c, key) EXCEPT !.events = Append(c.events, Event(c, key, cause))]

\* the callback (key) => { this._deleteKey(key); this.stats.expirations++; }
onExpire(c, key) ==
    [Destroy(c, key, "expire") EXCEPT !.stats.expirations = @ + 1]

\* _flushPendingDeletes: for (const key of this.pendingDeletes) onExpire(key)
RECURSIVE FlushLoop(_, _, _)
FlushLoop(c, keys, j) ==
    IF j > Len(keys) THEN c
    ELSE Bind(onExpire(c, keys[j]), LAMBDA c2 : FlushLoop(c2, keys, j + 1))

\* _flushPendingDeletes that clears the buffer without calling onExpire
TTL_flushPendingDeletes_Drop(c) == [c EXCEPT !.ttl.pendingDeletes = <<>>]

TTL_flushPendingDeletes_(c) ==
    [FlushLoop(c, c.ttl.pendingDeletes, 1) EXCEPT !.ttl.pendingDeletes = <<>>]

TTL_flushPendingDeletes(c) ==
    IF Len(c.ttl.pendingDeletes) > 0 THEN TTL_flushPendingDeletes_(c) ELSE c

\* sampleAndPurge that flushes the buffer at the end of every call
TTL_sampleAndPurge_FlushAlways(c, k) ==
    IF Len(c.ttl.expirations) = 0 THEN [c |-> c, expiredCount |-> 0]
    ELSE Bind(TTLSampleLoop(IF c.ttl.keyIterator = Null
                            THEN [c.ttl EXCEPT !.keyIterator = Some(0)] ELSE c.ttl,
                            0, k, 0),
              LAMBDA r :
                [c |-> TTL_flushPendingDeletes_([c EXCEPT !.ttl = r.t]),
                 expiredCount |-> r.expiredCount])

\* sampleAndPurge(k, onExpire): the cache afterwards and the count returned
TTL_sampleAndPurge(c, k) ==
    IF Len(c.ttl.expirations) = 0 THEN [c |-> c, expiredCount |-> 0]
    ELSE Bind(TTLSampleLoop(IF c.ttl.keyIterator = Null
                            THEN [c.ttl EXCEPT !.keyIterator = Some(0)] ELSE c.ttl,
                            0, k, 0),
              LAMBDA r :
                [c |-> IF Len(r.t.pendingDeletes) >= PendingFlushAt
                       THEN TTL_flushPendingDeletes_([c EXCEPT !.ttl = r.t])
                       ELSE [c EXCEPT !.ttl = r.t],
                 expiredCount |-> r.expiredCount])

Cache_checkExpired(c, key) ==
    With(IF (c.operationCount + 1) % LAZY_EXPIRE_FREQ = 0
         THEN TTL_sampleAndPurge([c EXCEPT !.operationCount = @ + 1], 5).c
         ELSE [c EXCEPT !.operationCount = @ + 1],
         LAMBDA c2 :
           IF TTL_isExpired(c2.ttl, key)
           THEN [c |-> onExpire(c2, key), expired |-> TRUE]
           ELSE [c |-> c2, expired |-> FALSE])

\* _getEntry that touches the key before looking the entry up
Cache_getEntry_TouchMissing(c, key, inc) ==
    With(Cache_checkExpired(c, key),
         LAMBDA x :
           IF x.expired \/ key \notin DOMAIN x.c.store
           THEN [c |-> [x.c EXCEPT !.usage = Usage_touch(@, key, inc)], entry |-> Null]
           ELSE [c |-> [x.c EXCEPT !.usage = Usage_touch(@, key, inc)],
                 entry |-> Some(x.c.store[key])])

\* _getEntry(key): the cache afterwards and the entry (Null for null)
\* _getEntry that touches the key of a live entry twice
Cache_getEntry_TouchTwice(c, key, inc) ==
    With(Cache_checkExpired(c, key),
         LAMBDA x :
           IF x.expired \/ key \notin DOMAIN x.c.store THEN [c |-> x.c, entry |-> Null]
           ELSE [c |-> [x.c EXCEPT !.usage = Usage_touch(Usage_touch(@, key, inc),
                                                        key, inc)],
                 entry |-> Some(x.c.store[key])])

Cache_getEntry(c, key, inc) ==
    With(Cache_checkExpired(c, key),
         LAMBDA x :
           IF x.expired \/ key \notin DOMAIN x.c.store THEN [c |-> x.c, entry |-> Null]
           ELSE [c |-> [x.c EXCEPT !.usage = Usage_touch(@, key, inc)],
                 entry |-> Some(x.c.store[key])])

\* a comparator that prefers the most recently and most often used key
EvictCompare_Newest(c, a, b) ==
    IF a \notin DOMAIN c.usage.metadata THEN -1
    ELSE IF b \notin DOMAIN c.usage.metadata THEN 1
    ELSE LET metaA == c.usage.metadata[a]
             metaB == c.usage.metadata[b]
         IN IF evictionPolicy = "lru" THEN metaB.lastAccess - metaA.lastAccess
            ELSE IF metaA.freq # metaB.freq THEN metaB.freq - metaA.freq
            ELSE metaB.lastAccess - metaA.lastAccess

\* the comparator of samples.sort
EvictCompare(c, a, b) ==
    IF a \notin DOMAIN c.usage.metadata THEN -1
    ELSE IF b \notin DOMAIN c.usage.metadata THEN 1
    ELSE LET metaA == c.usage.metadata[a]
             metaB == c.usage.metadata[b]
         IN IF evictionPolicy = "lru" THEN metaA.lastAccess - metaB.lastAccess
            ELSE IF metaA.freq # metaB.freq THEN metaA.freq - metaB.freq
            ELSE metaA.lastAccess - metaB.lastAccess

\* samples.sort(comparator): every order of the keys of S in which no key
\* compares above a later one (the keys come in a random order and the sort is
\* stable, so keys that compare equal come out in any order)
RECURSIVE SortedSeqs(_, _)
SortedSeqs(c, S) ==
    IF S = {} THEN {<<>>}
    ELSE UNION {{<<m>> \o t : t \in SortedSeqs(c, S \ {m})} :
                  m \in {x \in S : \A y \in S \ {x} : EvictCompare(c, x, y) <= 0}}

\* The refills of an empty pool: sampleSize distinct keys drawn at random,
\* sorted, and the pool cut from them to the dynamic pool size.
Refills(c) ==
    LET allKeys == DOMAIN c.store
        sampleSize == Min2(evictionSampleSize * 2, Cardinality(allKeys))
        sampled == IF sampleSize = Cardinality(allKeys) THEN {allKeys}
                   ELSE {S \in SUBSET allKeys : Cardinality(S) = sampleSize}
    IN {[samples |-> p, pool |-> SubSeq(p, 1, Min2(Len(p), dynamicPoolSize(c)))] :
          p \in UNION {SortedSeqs(c, S) : S \in sampled}}

RefillPools(c) == {r.pool : r \in Refills(c)}

\* _evictIfNeeded without the this.store.has(victim) validation
RECURSIVE Cache_evictIfNeeded_Unchecked(_)
Cache_evictIfNeeded_Unchecked(c) ==
    IF ~(c.currentMemoryUsed > maxmemory /\ Cardinality(DOMAIN c.store) > 0) THEN {c}
    ELSE LET pools == IF Len(c.evictionPool) = 0 THEN RefillPools(c)
                      ELSE {c.evictionPool}
         IN UNION {
              LET victim == Head(pool)
                  c1 == [c EXCEPT !.evictionPool = Tail(pool)]
              IN IF victim = "" THEN {c1}
                 ELSE Cache_evictIfNeeded_Unchecked(
                        [Destroy(c1, victim, "evict") EXCEPT !.stats.evictions = @ + 1])
              : pool \in pools}

\* _evictIfNeeded(): every cache it can leave behind
RECURSIVE Cache_evictIfNeeded(_)
Cache_evictIfNeeded(c) ==
    IF ~(c.currentMemoryUsed > maxmemory /\ Cardinality(DOMAIN c.store) > 0) THEN {c}
    ELSE LET pools == IF Len(c.evictionPool) = 0 THEN RefillPools(c)
                      ELSE {c.evictionPool}
         IN UNION {
              LET victim == Head(pool)
                  c1 == [c EXCEPT !.evictionPool = Tail(pool)]
              IN IF victim = "" THEN {c1}   \* if (victim) is false for "": break
                 ELSE IF victim \in DOMAIN c1.store
                 THEN Cache_evictIfNeeded(
                        [Destroy(c1, victim, "evict") EXCEPT !.stats.evictions = @ + 1])
                 ELSE \* key was already deleted, skip it (recorded as "stale")
                      Cache_evictIfNeeded(
                        [c1 EXCEPT !.events = Append(@, Event(c1, victim, "stale"))])
              : pool \in pools}

(***************************************************************************)
(* Cache: the public operations.  inc is the outcome of the random draw of *)
(* touch(), newLevel that of randomLevel().                                *)
(***************************************************************************)

\* an operation that forgets this.stats.operations++
Begin_Uncounted == CacheState

\* this.stats.operations++
Begin == [CacheState EXCEPT !.stats.operations = @ + 1]

Hit(c) == [c EXCEPT !.stats.hits = @ + 1]

\* a miss that is not counted
Miss_Uncounted(c) == c

Miss(c) == [c EXCEPT !.stats.misses = @ + 1]

\* set that leaves an earlier TTL record alone when px is omitted
Cache_set_KeepTtl(key, value, px, inc) ==
    \E c1 \in Cache_evictIfNeeded(Begin) :
         LET old == IF key \in DOMAIN c1.store THEN c1.store[key].memoryUsed ELSE 0
             entry == WithMemory(key, Entry("string", value, NewZSet, <<>>, "none", 0))
             c2 == [c1 EXCEPT
                      !.currentMemoryUsed = @ - old + entry.memoryUsed,
                      !.store = MapSet(@, key, entry),
                      !.usage = Usage_touch(@, key, inc),
                      !.ttl = IF px # Null /\ px[1] > 0
                              THEN TTL_set(@, key, now + px[1])
                              ELSE @]
         IN Commit(c2, Ret("set", key, value, Null, FALSE))

\* set(key, value, px) without usage.touch(key)
Cache_set_NoTouch(key, value, px, inc) ==
    \E c1 \in Cache_evictIfNeeded(Begin) :
         LET old == IF key \in DOMAIN c1.store THEN c1.store[key].memoryUsed ELSE 0
             entry == WithMemory(key, Entry("string", value, NewZSet, <<>>, "none", 0))
             c2 == [c1 EXCEPT
                      !.currentMemoryUsed = @ - old + entry.memoryUsed,
                      !.store = MapSet(@, key, entry),
                      !.ttl = IF px # Null /\ px[1] > 0
                              THEN TTL_set(@, key, now + px[1])
                              ELSE TTL_delete(@, key)]
         IN Commit(c2, Ret("set", key, value, Null, FALSE))

Cache_set(key, value, px, inc) ==
    \E c1 \in Cache_evictIfNeeded(Begin) :
         LET old == IF key \in DOMAIN c1.store THEN c1.store[key].memoryUsed ELSE 0
             entry == WithMemory(key, Entry("string", value, NewZSet, <<>>, "none", 0))
             c2 == [c1 EXCEPT
                      !.currentMemoryUsed = @ - old + entry.memoryUsed,
                      !.store = MapSet(@, key, entry),
                      !.usage = Usage_touch(@, key, inc),
                      !.ttl = IF px # Null /\ px[1] > 0
                              THEN TTL_set(@, key, now + px[1])
                              ELSE TTL_delete(@, key)]
         IN Commit(c2, Ret("set", key, value, Null, FALSE))

Cache_get(key, inc) ==
    With(Cache_getEntry(Begin, key, inc),
         LAMBDA g :
           IF g.entry = Null THEN Commit(Miss(g.c), Ret("get", key, "", Null, FALSE))
           ELSE IF g.entry[1].type # "string"
           THEN Commit(g.c, Ret("get", key, "", Null, TRUE))
           ELSE Commit(Hit(g.c), Ret("get", key, "", Some(g.entry[1].sval), FALSE)))

Cache_del(key) ==
    IF key \in DOMAIN store
       THEN Commit(Destroy(Begin, key, "del"), Ret("del", key, "", Some(1), FALSE))
       ELSE Commit(Begin, Ret("del", key, "", Some(0), FALSE))

Cache_zadd(key, score, member, newLevel, inc) ==
    \E c1 \in Cache_evictIfNeeded(Cache_checkExpired(Begin, key).c) :
      IF key \notin DOMAIN c1.store
      THEN With(ZSet_zadd(NewZSet, member, score, newLevel),
                LAMBDA r :
                  Commit([c1 EXCEPT
                            !.currentMemoryUsed = @ + calculateMemoryUsed(key,
                                Entry("zset", "", r.z, <<>>, "none", 0)),
                            !.store = MapSet(@, key, WithMemory(key,
                                Entry("zset", "", r.z, <<>>, "none", 0))),
                            !.usage = Usage_touch(@, key, inc)],
                         Ret("zadd", key, <<member, score>>,
                             Some(IF r.added THEN 1 ELSE 0), FALSE)))
      ELSE IF c1.store[key].type # "zset"
      THEN Commit(c1, Ret("zadd", key, <<member, score>>, Null, TRUE))
      ELSE With(ZSet_zadd(c1.store[key].zval, member, score, newLevel),
                LAMBDA r :
                  LET delta == IF r.added THEN estimateMemberSize(member) ELSE 0 IN
                  Commit([c1 EXCEPT
                            !.store[key].zval = r.z,
                            !.store[key].memoryUsed = @ + delta,
                            !.currentMemoryUsed = @ + delta,
                            !.usage = Usage_touch(@, key, inc)],
                         Ret("zadd", key, <<member, score>>,
                             Some(IF r.added THEN 1 ELSE 0), FALSE)))

\* zrem once the entry is known to be an ordered collection
Cache_zremFound(c, key, member, e, r) ==
    LET charged == r.removed /\ e.memoryUsed # 0
        delta == estimateMemberSize(member)
    IN Commit([c EXCEPT
                 !.store[key].zval = r.z,
                 !.store[key].memoryUsed = IF charged THEN Max2(0, @ - delta) ELSE @,
                 !.currentMemoryUsed = IF charged THEN Max2(0, @ - delta) ELSE @],
              Ret("zrem", key, member, Some(IF r.removed THEN 1 ELSE 0), FALSE))

Cache_zrem(key, member, inc) ==
    With(Cache_getEntry(Begin, key, inc),
         LAMBDA g :
           IF g.entry = Null THEN Commit(g.c, Ret("zrem", key, member, Some(0), FALSE))
           ELSE IF g.entry[1].type # "zset"
           THEN Commit(g.c, Ret("zrem", key, member, Null, TRUE))
           ELSE Cache_zremFound(g.c, key, member, g.entry[1],
                                ZSet_zrem(g.entry[1].zval, member)))

Cache_zscore(key, member, inc) ==
    With(Cache_getEntry(Begin, key, inc),
         LAMBDA g :
           IF g.entry = Null
           THEN Commit(Miss(g.c), Ret("zscore", key, member, Null, FALSE))
           ELSE IF g.entry[1].type # "zset"
           THEN Commit(g.c, Ret("zscore", key, member, Null, TRUE))
           ELSE Commit(Hit(g.c), Ret("zscore", key, member,
                                     ZSet_zscore(g.entry[1].zval, member), FALSE)))

Cache_zrank(key, member, inc) ==
    With(Cache_getEntry(Begin, key, inc),
         LAMBDA g :
           IF g.entry = Null
           THEN Commit(Miss(g.c), Ret("zrank", key, member, Null, FALSE))
           ELSE IF g.entry[1].type # "zset"
           THEN Commit(g.c, Ret("zrank", key, member, Null, TRUE))
           ELSE Commit(Hit(g.c), Ret("zrank", key, member,
                                     ZSet_zrank(g.entry[1].zval, member), FALSE)))

Cache_zrangeByScore(key, min, max, limit, inc) ==
    With(Cache_getEntry(Begin, key, inc),
         LAMBDA g :
           IF g.entry = Null
           THEN Commit(Miss(g.c), Ret("zrangeByScore", key, <<min, max, limit>>, <<>>, FALSE))
           ELSE IF g.entry[1].type # "zset"
           THEN Commit(g.c, Ret("zrangeByScore", key, <<min, max, limit>>, <<>>, TRUE))
           ELSE Commit(Hit(g.c), Ret("zrangeByScore", key, <<min, max, limit>>,
                          ZSet_zrangeByScore(g.entry[1].zval, min, max, limit), FALSE)))

\* the for loop of sadd over members[j..]
RECURSIVE SaddLoop(_, _, _)
SaddLoop(acc, members, j) ==
    IF j > Len(members) THEN acc
    ELSE LET member == members[j] IN
         IF acc.encoding = "intset"
         THEN LET r == IntSet_add([i \in 1..Len(acc.elems) |-> acc.elems[i].n], member) IN
              IF r.result = "upgrade"
              THEN LET set == IntSet_upgradeToSet([i \in 1..Len(acc.elems) |-> acc.elems[i].n])
                       has == SeqHas(set, member)
                   IN SaddLoop([elems |-> IF has THEN set ELSE Append(set, member),
                                encoding |-> "hashtable",
                                addedCount |-> IF has THEN acc.addedCount
                                               ELSE acc.addedCount + 1],
                               members, j + 1)
              ELSE SaddLoop([elems |-> [i \in 1..Len(r.data) |-> IntMember(r.data[i])],
                             encoding |-> "intset",
                             addedCount |-> IF r.result = "true" THEN acc.addedCount + 1
                                            ELSE acc.addedCount],
                            members, j + 1)
         ELSE LET has == SeqHas(acc.elems, member) IN
              SaddLoop([elems |-> IF has THEN acc.elems ELSE Append(acc.elems, member),
                        encoding |-> "hashtable",
                        addedCount |-> IF has THEN acc.addedCount ELSE acc.addedCount + 1],
                       members, j + 1)

\* sadd from "if (!entry)" on: c is the cache after the expiry check and eviction
Cache_saddEntry(c, key, members, inc, entry0) ==
    IF entry0.type # "set"
    THEN Commit(c, Ret("sadd", key, members, Null, TRUE))
    ELSE With(SaddLoop([elems |-> entry0.elems, encoding |-> entry0.encoding,
                        addedCount |-> 0], members, 1),
              LAMBDA r :
                LET sizeDelta == Len(r.elems) - Len(entry0.elems)
                    memoryDelta == IF r.addedCount > 0
                                   THEN sizeDelta * (IF r.encoding = "intset" THEN 8 ELSE 40)
                                   ELSE 0
                IN Commit([c EXCEPT
                             !.store[key].elems = r.elems,
                             !.store[key].encoding = r.encoding,
                             !.store[key].memoryUsed = @ + memoryDelta,
                             !.currentMemoryUsed = @ + memoryDelta,
                             !.usage = Usage_touch(@, key, inc)],
                          Ret("sadd", key, members, Some(r.addedCount), FALSE)))

Cache_sadd(key, members, inc) ==
    \E c1 \in Cache_evictIfNeeded(Cache_checkExpired(Begin, key).c) :
      IF key \notin DOMAIN c1.store
      THEN LET entry0 == WithMemory(key, Entry("set", "", NewZSet, <<>>, "intset", 0)) IN
           Cache_saddEntry([c1 EXCEPT !.currentMemoryUsed = @ + entry0.memoryUsed,
                                      !.store = MapSet(@, key, entry0)],
                           key, members, inc, entry0)
      ELSE Cache_saddEntry(c1, key, members, inc, c1.store[key])

Cache_smembers(key, inc) ==
    With(Cache_getEntry(Begin, key, inc),
         LAMBDA g :
           IF g.entry = Null THEN Commit(Miss(g.c), Ret("smembers", key, "", <<>>, FALSE))
           ELSE IF g.entry[1].type # "set"
           THEN Commit(g.c, Ret("smembers", key, "", <<>>, TRUE))
           ELSE Commit(Hit(g.c), Ret("smembers", key, "", g.entry[1].elems, FALSE)))

\* hits / (hits + misses) || 0, as the fraction <<numerator, denominator>>:
\* 0 / 0 is NaN, which || turns into 0
hitRate(hits, misses) ==
    IF hits + misses = 0 THEN <<0, 1>> ELSE <<hits, hits + misses>>

\* getStats(): the statistics with hitRate, memoryUsed and keyCount
Cache_getStats ==
    Commit(CacheState,
           Ret("getStats", "", "",
               Some([hits |-> stats.hits, misses |-> stats.misses,
                     evictions |-> stats.evictions, expirations |-> stats.expirations,
                     operations |-> stats.operations,
                     hitRate |-> hitRate(stats.hits, stats.misses),
                     memoryUsed |-> currentMemoryUsed,
                     keyCount |-> Cardinality(DOMAIN store)]),
               FALSE))

\* shutdown that also clears the statistics
Cache_shutdown_ResetStats ==
    Commit([TTL_flushPendingDeletes(CacheState) EXCEPT
              !.ttl.interval = FALSE, !.usage.decayTimer = FALSE,
              !.stats = [hits |-> 0, misses |-> 0, evictions |-> 0, expirations |-> 0,
                         operations |-> 0]],
           Ret("shutdown", "", "", Null, FALSE))

\* shutdown that leaves the expiration timer running
Cache_shutdown_KeepTimer ==
    Commit([TTL_flushPendingDeletes(CacheState) EXCEPT !.usage.decayTimer = FALSE],
           Ret("shutdown", "", "", Null, FALSE))

Cache_shutdown ==
    Commit([TTL_flushPendingDeletes(CacheState) EXCEPT
              !.ttl.interval = FALSE, !.usage.decayTimer = FALSE],
           Ret("shutdown", "", "", Null, FALSE))

(***************************************************************************)
(* The timers and the clock.                                               *)
(***************************************************************************)

\* the do-while of the timer callback without the 25% test: it samples
\* maxRounds times whenever the map is not empty
RECURSIVE ActiveRounds_Eager(_, _, _, _)
ActiveRounds_Eager(c, rounds, sampleSize, maxRounds) ==
    LET sampled == Min2(sampleSize, Len(c.ttl.expirations)) IN
    IF sampled = 0 THEN [c |-> c, rounds |-> rounds]
    ELSE Bind(TTL_sampleAndPurge(c, sampled),
              LAMBDA r :
                IF rounds + 1 < maxRounds
                THEN ActiveRounds_Eager(r.c, rounds + 1, sampleSize, maxRounds)
                ELSE [c |-> r.c, rounds |-> rounds + 1])

\* the do-while of the setInterval callback of startActiveExpiration
RECURSIVE ActiveRounds(_, _, _, _)
ActiveRounds(c, rounds, sampleSize, maxRounds) ==
    LET sampled == Min2(sampleSize, Len(c.ttl.expirations)) IN
    IF sampled = 0 THEN [c |-> c, rounds |-> rounds]
    ELSE Bind(TTL_sampleAndPurge(c, sampled),
              LAMBDA r :
                IF r.expiredCount * 4 > sampled /\ rounds + 1 < maxRounds
                THEN ActiveRounds(r.c, rounds + 1, sampleSize, maxRounds)
                ELSE [c |-> r.c, rounds |-> rounds + 1])

\* startActiveExpiration(cb, 200, 10, 2): one firing of the timer
ActiveExpireTick ==
    /\ ttl.interval
    /\ \E r \in {ActiveRounds(CacheState, 0, 10, 2)} :
          Commit(r.c, Ret("activeExpire", "", "", Some(r.rounds), FALSE))

\* startDecay: one firing of the timer
DecayTick ==
    /\ usage.decayTimer
    /\ LET u == [usage EXCEPT !.metadata = [k \in DOMAIN @ |->
                    IF now - @[k].lastDecay >= DecayInterval
                    THEN [@[k] EXCEPT !.freq = Max2(0, @ - decayAmount),
                                      !.lastDecay = now]
                    ELSE @[k]]]
       IN Commit([CacheState EXCEPT !.usage = u], Ret("decay", "", "", Null, FALSE))

\* the clock moves on by a millisecond, up to limit
AdvanceTimeTo(limit) ==
    /\ now < limit
    /\ now' = now + 1
    /\ ret' = Ret("advanceTime", "", "", Null, FALSE)
    /\ events' = <<>>
    /\ UNCHANGED <<store, ttl, usage, currentMemoryUsed, evictionPool, operationCount,
                   stats, evictionPolicy, maxmemory, zs, zret, dict>>

AdvanceTime == AdvanceTimeTo(MaxTime)

(***************************************************************************)
(* The cache as a state machine: its clients call the public operations,   *)
(* the two timers fire, and the clock advances.                            *)
(***************************************************************************)

Keys == {"", "k"}

Values == {"v"}

\* px: absent, zero, or a positive number of milliseconds
Pxs == {Null, Some(0), Some(1)}

\* the outcomes of the draw in touch(): only the lfu policy draws
Incs == IF evictionPolicy = "lfu" THEN BOOLEAN ELSE {FALSE}

(***************************************************************************)
(* Dictionary: two tables and an incremental rehash.  A Map is the         *)
(* sequence of its entries in insertion order.                             *)
(***************************************************************************)

\* the table size above which set() starts a rehash (1000 in the source)
RehashAbove == 1

Map_has(m, k) == \E j \in 1..Len(m) : m[j].key = k

\* Map.get: Null stands for undefined
Map_get(m, k) ==
    IF Map_has(m, k) THEN Some((CHOOSE e \in {m[j] : j \in 1..Len(m)} : e.key = k).value)
    ELSE Null

\* Map.set: a held key keeps its place, a new key goes last
Map_set(m, k, v) ==
    IF Map_has(m, k)
    THEN [j \in 1..Len(m) |-> IF m[j].key = k THEN [key |-> k, value |-> v] ELSE m[j]]
    ELSE Append(m, [key |-> k, value |-> v])

Map_delete(m, k) == SelectSeq(m, LAMBDA e : e.key # k)

Map_keys(m) == [j \in 1..Len(m) |-> m[j].key]

\* new Dictionary(rehashStepSize)
NewDictionary(stepSize) ==
    [ht0 |-> <<>>, ht1 |-> Null, rehashidx |-> -1, rehashStepSize |-> stepSize,
     rehashIterator |-> FALSE]

isRehashing(d) == d.rehashidx >= 0

Dictionary_startRehash(d) ==
    IF isRehashing(d) THEN d
    ELSE [d EXCEPT !.ht1 = Some(<<>>), !.rehashidx = 0, !.rehashIterator = TRUE]

\* The loop of _rehashStep.  rehashIterator walks ht0.entries(): every entry
\* it has returned was deleted from ht0 at once and no entry joins ht0 while
\* it exists, so the entry it returns next is the first entry of ht0, and it
\* is done when ht0 is empty.
RECURSIVE RehashLoop(_, _)
RehashLoop(d, moved) ==
    IF moved >= d.rehashStepSize THEN d
    ELSE IF d.ht0 = <<>>
         THEN [d EXCEPT !.ht0 = d.ht1[1], !.ht1 = Null, !.rehashidx = -1,
                        !.rehashIterator = FALSE]
         ELSE RehashLoop([d EXCEPT !.ht1 = Some(Map_set(@[1], d.ht0[1].key, d.ht0[1].value)),
                                   !.ht0 = Map_delete(@, d.ht0[1].key),
                                   !.rehashidx = @ + 1],
                         moved + 1)

Dictionary_rehashStep(d) ==
    IF ~isRehashing(d) THEN d
    ELSE IF ~d.rehashIterator \/ d.ht1 = Null THEN d
    ELSE RehashLoop(d, 0)

\* get(key): [d, val]
Dictionary_get(d, key) ==
    LET d1 == Dictionary_rehashStep(d)
        val == IF isRehashing(d1) /\ d1.ht1 # Null /\ Map_get(d1.ht1[1], key) # Null
               THEN Map_get(d1.ht1[1], key)
               ELSE Map_get(d1.ht0, key)
    IN [d |-> d1, val |-> val]

\* set(key, value) that, during a rehash, leaves the key's entry in ht0
Dictionary_set_KeepOld(d, key, value) ==
    LET d1 == Dictionary_rehashStep(d) IN
    IF isRehashing(d1) /\ d1.ht1 # Null
    THEN [d1 EXCEPT !.ht1 = Some(Map_set(@[1], key, value))]
    ELSE LET d2 == [d1 EXCEPT !.ht0 = Map_set(@, key, value)] IN
         IF Len(d2.ht0) > RehashAbove /\ ~isRehashing(d2)
         THEN Dictionary_startRehash(d2) ELSE d2

Dictionary_set(d, key, value) ==
    LET d1 == Dictionary_rehashStep(d) IN
    IF isRehashing(d1) /\ d1.ht1 # Null
    THEN [d1 EXCEPT !.ht0 = Map_delete(@, key),
                    !.ht1 = Some(Map_set(@[1], key, value))]
    ELSE LET d2 == [d1 EXCEPT !.ht0 = Map_set(@, key, value)] IN
         IF Len(d2.ht0) > RehashAbove /\ ~isRehashing(d2)
         THEN Dictionary_startRehash(d2) ELSE d2

\* delete(key): [d, deleted]
Dictionary_delete(d, key) ==
    LET d1 == Dictionary_rehashStep(d)
        both == isRehashing(d1) /\ d1.ht1 # Null
        deleted == (both /\ Map_has(d1.ht1[1], key)) \/ Map_has(d1.ht0, key)
        d2 == IF both THEN [d1 EXCEPT !.ht1 = Some(Map_delete(@[1], key))] ELSE d1
    IN [d |-> [d2 EXCEPT !.ht0 = Map_delete(@, key)], deleted |-> deleted]

\* has(key): [d, val]
Dictionary_has(d, key) ==
    LET d1 == Dictionary_rehashStep(d) IN
    [d |-> d1,
     val |-> IF isRehashing(d1) /\ d1.ht1 # Null /\ Map_has(d1.ht1[1], key) THEN TRUE
             ELSE Map_has(d1.ht0, key)]

\* keys(): [d, val]
Dictionary_keys(d) ==
    LET d1 == Dictionary_rehashStep(d) IN
    [d |-> d1,
     val |-> IF isRehashing(d1) /\ d1.ht1 # Null
             THEN Map_keys(d1.ht0) \o Map_keys(d1.ht1[1])
             ELSE Map_keys(d1.ht0)]

\* get size()
Dictionary_size(d) ==
    IF isRehashing(d) /\ d.ht1 # Null THEN Len(d.ht0) + Len(d.ht1[1]) ELSE Len(d.ht0)

ZRet(op, member, score, old, min, max, limit, val) ==
    [op |-> op, member |-> member, score |-> score, old |-> old,
     min |-> min, max |-> max, limit |-> limit, val |-> val]

\* new Cache({maxmemory: memory, evictionPolicy: policy})
NewCache(memory, policy) ==
    /\ maxmemory = memory
    /\ evictionPolicy = policy
    /\ now = 0
    /\ store = <<>>
    /\ ttl = [NewTTL EXCEPT !.interval = TRUE]
    /\ usage = NewUsage
    /\ currentMemoryUsed = 0
    /\ evictionPool = <<>>
    /\ operationCount = 0
    /\ stats = [hits |-> 0, misses |-> 0, evictions |-> 0, expirations |-> 0,
                operations |-> 0]
    /\ ret = Ret("new", "", "", Null, FALSE)
    /\ events = <<>>
    /\ zs = NewZSet
    /\ zret = ZRet("new", "", 0, Null, 0, 0, Null, Null)
    /\ dict = NewDictionary(1)

\* a cache that has to evict, with the default policy
Init == NewCache(TightMemory, "lru")

\* the client has made fewer than n calls
Budget(n) == stats.operations < n

\* A client calls the public operations, the expiration timer fires, the
\* clock advances.
Next ==
    \/ \E key \in Keys, value \in Values, px \in Pxs, inc \in Incs :
          Budget(MaxOps) /\ Cache_set(key, value, px, inc)
    \/ \E key \in Keys, inc \in Incs : Budget(MaxOps) /\ Cache_get(key, inc)
    \/ \E key \in Keys : Budget(MaxOps) /\ Cache_del(key)
    \/ \E key \in Keys, score \in Scores, inc \in Incs :
          Budget(MaxOps) /\ Cache_zadd(key, score, "a", 1, inc)
    \/ \E key \in Keys, inc \in Incs : Budget(MaxOps) /\ Cache_zrem(key, "a", inc)
    \/ \E key \in Keys, inc \in Incs : Budget(MaxOps) /\ Cache_zscore(key, "a", inc)
    \/ \E key \in Keys, inc \in Incs : Budget(MaxOps) /\ Cache_zrank(key, "a", inc)
    \/ \E key \in Keys, inc \in Incs :
          Budget(MaxOps) /\ Cache_zrangeByScore(key, 1, 2, Null, inc)
    \/ \E key \in Keys, inc \in Incs :
          Budget(MaxOps) /\ Cache_sadd(key, <<IntMember(1)>>, inc)
    \/ \E key \in Keys, inc \in Incs : Budget(MaxOps) /\ Cache_smembers(key, inc)
    \/ Cache_getStats
    \/ Cache_shutdown
    \/ ActiveExpireTick
    \/ AdvanceTime

Spec == Init /\ [][Next]_vars

(***************************************************************************)
(* The expiry paths at length: a client that writes and reads strings, for *)
(* ExpireOps calls.                                                        *)
(***************************************************************************)

ExpireOps == 5

NextExpire ==
    \/ \E key \in Keys, value \in Values, px \in Pxs :
          Budget(ExpireOps) /\ Cache_set(key, value, px, FALSE)
    \/ \E key \in Keys : Budget(ExpireOps) /\ Cache_get(key, FALSE)
    \/ Cache_shutdown
    \/ ActiveExpireTick
    \/ AdvanceTime

SpecExpire == Init /\ [][NextExpire]_vars

(***************************************************************************)
(* A client of the ordered-collection operations, for OrderedOps calls:    *)
(* no key has a TTL, the clock stands still, the budget is the default.    *)
(***************************************************************************)

OrderedOps == 4

\* The collection lives under "k"; range queries also ask for "", which is
\* never written.
NextOrdered ==
    \/ \E score \in Scores, member \in Members, newLevel \in Levels :
          Budget(OrderedOps) /\ Cache_zadd("k", score, member, newLevel, FALSE)
    \/ \E member \in Members :
          Budget(OrderedOps) /\ Cache_zrem("k", member, FALSE)
    \/ \E key \in Keys, min \in Scores, max \in Scores, limit \in Limits :
          Budget(OrderedOps) /\ Cache_zrangeByScore(key, min, max, limit, FALSE)

\* new Cache()
InitDefault == NewCache(DefaultMemory, "lru")

SpecOrdered == InitDefault /\ [][NextOrdered]_vars

(***************************************************************************)
(* A client of the member-set operations, for SetOps calls, on a cache     *)
(* that has to evict.                                                      *)
(***************************************************************************)

SetOps == 3

\* the longest argument list of a sadd call
SetArgLen == 2

\* integers, and a value that is not one
SetMembers == {IntMember(1), IntMember(2), IntMember(3), OtherMember("s")}

\* the argument lists of sadd(key, ...members), the empty one included
SetArgs == UNION {[1..n -> SetMembers] : n \in 0..SetArgLen}

NextSet ==
    \/ \E key \in Keys, members \in SetArgs :
          Budget(SetOps) /\ Cache_sadd(key, members, FALSE)
    \/ \E key \in Keys : Budget(SetOps) /\ Cache_smembers(key, FALSE)

SpecSet == Init /\ [][NextSet]_vars

(***************************************************************************)
(* A cache with the lfu policy, for LfuOps calls: touch() draws, the decay *)
(* timer fires.                                                            *)
(***************************************************************************)

LfuOps == 3

\* new Cache({maxmemory: TightMemory, evictionPolicy: 'lfu'})
InitLfu == NewCache(TightMemory, "lfu")

NextLfu ==
    \/ \E key \in Keys, value \in Values, px \in Pxs, inc \in Incs :
          Budget(LfuOps) /\ Cache_set(key, value, px, inc)
    \/ \E key \in Keys, inc \in Incs : Budget(LfuOps) /\ Cache_get(key, inc)
    \/ \E key \in Keys, inc \in Incs :
          Budget(LfuOps) /\ Cache_zadd(key, 1, "a", 1, inc)
    \/ Cache_shutdown
    \/ ActiveExpireTick
    \/ DecayTick
    \/ AdvanceTime

SpecLfu == InitLfu /\ [][NextLfu]_vars

(***************************************************************************)
(* A cache that is never shut down: the expiration timer keeps firing      *)
(* while a client makes ActiveOps calls.                                   *)
(***************************************************************************)

ActiveOps == 3

NextActive ==
    \/ \E key \in Keys, value \in Values, px \in Pxs :
          Budget(ActiveOps) /\ Cache_set(key, value, px, FALSE)
    \/ \E key \in Keys : Budget(ActiveOps) /\ Cache_get(key, FALSE)
    \/ ActiveExpireTick
    \/ AdvanceTime

\* setInterval: as long as the timer is not cleared, its callback runs again
SpecActive == Init /\ [][NextActive]_vars /\ WF_vars(ActiveExpireTick)

(***************************************************************************)
(* A cache whose budget a single entry can exceed, for PoolOps calls:      *)
(* eviction passes start with keys left in the pool by earlier passes.     *)
(***************************************************************************)

PoolMemory == 60

PoolOps == 5

\* new Cache({maxmemory: PoolMemory})
InitPool == NewCache(PoolMemory, "lru")

NextPool ==
    \/ \E key \in Keys, value \in Values, px \in Pxs, inc \in Incs :
          Budget(PoolOps) /\ Cache_set(key, value, px, inc)
    \/ \E key \in Keys, inc \in Incs : Budget(PoolOps) /\ Cache_get(key, inc)
    \/ \E key \in Keys : Budget(PoolOps) /\ Cache_del(key)
    \/ \E key \in Keys, inc \in Incs :
          Budget(PoolOps) /\ Cache_zadd(key, 1, "a", 1, inc)
    \/ AdvanceTime

SpecPool == InitPool /\ [][NextPool]_vars

(***************************************************************************)
(* A cache that holds more keys than the eviction pool: under either       *)
(* policy a client stores the keys of RefillKeys one after the other, each *)
(* time the first one that the cache does not hold, and once it holds them *)
(* all, any of them again; RefillOps calls in all, at most TouchedPerTick  *)
(* keys per millisecond, with a budget that the last key exceeds.  The     *)
(* decay timer of the lfu policy fires in between.                         *)
(***************************************************************************)

RefillKeys == <<"k1", "k2", "k3", "k4", "k5", "k6", "k7", "k8", "k9">>

RefillMemory == 450

RefillOps == 10

RefillTime == 5

TouchedPerTick == 2

\* new Cache({maxmemory: RefillMemory, evictionPolicy: policy})
InitRefill == \E policy \in {"lru", "lfu"} : NewCache(RefillMemory, policy)

\* the first key of RefillKeys that the cache does not hold
NextKeys ==
    {RefillKeys[i] : i \in {j \in 1..Len(RefillKeys) :
                               /\ RefillKeys[j] \notin DOMAIN store
                               /\ \A h \in 1..(j - 1) : RefillKeys[h] \in DOMAIN store}}

NextRefill ==
    \/ \E key \in (IF NextKeys = {} THEN DOMAIN store ELSE NextKeys),
           value \in Values, inc \in Incs :
          /\ Budget(RefillOps)
          /\ Cardinality({k \in DOMAIN usage.metadata :
                             usage.metadata[k].lastAccess = now}) < TouchedPerTick
          /\ Cache_set(key, value, Null, inc)
    \/ DecayTick
    \/ AdvanceTimeTo(RefillTime)

SpecRefill == InitRefill /\ [][NextRefill]_vars

(***************************************************************************)
(* A cache with the lfu policy whose client makes TouchOps calls of any    *)
(* public data operation while the clock advances: every call that reaches *)
(* an entry draws in touch().                                              *)
(***************************************************************************)

TouchOps == 3

NextTouch ==
    \/ \E key \in Keys, value \in Values, px \in Pxs, inc \in Incs :
          Budget(TouchOps) /\ Cache_set(key, value, px, inc)
    \/ \E key \in Keys, inc \in Incs : Budget(TouchOps) /\ Cache_get(key, inc)
    \/ \E key \in Keys : Budget(TouchOps) /\ Cache_del(key)
    \/ \E key \in Keys, inc \in Incs :
          Budget(TouchOps) /\ Cache_zadd(key, 1, "a", 1, inc)
    \/ \E key \in Keys, inc \in Incs : Budget(TouchOps) /\ Cache_zrem(key, "a", inc)
    \/ \E key \in Keys, inc \in Incs : Budget(TouchOps) /\ Cache_zscore(key, "a", inc)
    \/ \E key \in Keys, inc \in Incs : Budget(TouchOps) /\ Cache_zrank(key, "a", inc)
    \/ \E key \in Keys, inc \in Incs :
          Budget(TouchOps) /\ Cache_zrangeByScore(key, 1, 2, Null, inc)
    \/ \E key \in Keys, inc \in Incs :
          Budget(TouchOps) /\ Cache_sadd(key, <<IntMember(1)>>, inc)
    \/ \E key \in Keys, inc \in Incs : Budget(TouchOps) /\ Cache_smembers(key, inc)
    \/ AdvanceTime

SpecTouch == InitLfu /\ [][NextTouch]_vars

(***************************************************************************)
(* A UsageTracker on its own, under either policy: it is new, or it has    *)
(* counted the key "k" up to one of StartFreqs already; its client touches *)
(* keys, each at most once per millisecond, the decay timer fires, and the *)
(* clock advances up to UsageTime.                                         *)
(***************************************************************************)

\* counter values next to both ends of the 8-bit range
StartFreqs == {0, 1, 254, 255}

UsageTime == 4

\* new UsageTracker(policy), possibly followed by touches of "k"
InitUsage ==
    \E policy \in {"lru", "lfu"}, start \in StartFreqs, fresh \in BOOLEAN :
       /\ policy = "lru" => start = 0
       /\ fresh => start = 0
       /\ maxmemory = DefaultMemory
       /\ evictionPolicy = policy
       /\ now = 0
       /\ store = <<>>
       /\ ttl = NewTTL
       /\ usage = [metadata |-> IF fresh THEN <<>>
                                ELSE MapSet(<<>>, "k", [lastAccess |-> 0, freq |-> start,
                                                        lastDecay |-> 0]),
                   decayTimer |-> policy = "lfu"]
       /\ currentMemoryUsed = 0
       /\ evictionPool = <<>>
       /\ operationCount = 0
       /\ stats = [hits |-> 0, misses |-> 0, evictions |-> 0, expirations |-> 0,
                   operations |-> 0]
       /\ ret = Ret("new", "", "", Null, FALSE)
       /\ events = <<>>
       /\ zs = NewZSet
       /\ zret = ZRet("new", "", 0, Null, 0, 0, Null, Null)
       /\ dict = NewDictionary(1)

\* tracker.touch(key)
UsageTouch(key, inc) ==
    /\ key \in DOMAIN usage.metadata => usage.metadata[key].lastAccess # now
    /\ Commit([CacheState EXCEPT !.usage = Usage_touch(@, key, inc)],
              Ret("touch", key, "", Null, FALSE))

NextUsage ==
    \/ \E key \in Keys, inc \in Incs : UsageTouch(key, inc)
    \/ DecayTick
    \/ AdvanceTimeTo(UsageTime)

SpecUsage == InitUsage /\ [][NextUsage]_vars

(***************************************************************************)
(* One Dictionary on its own, with either step size, next to a plain map   *)
(* (store) that receives the same calls.  Its client keeps calling:        *)
(* every call but the size getter takes a rehash step.                     *)
(***************************************************************************)

DictKeys == {"a", "b", "c"}

DictValues == {"v", "w"}

StepSizes == {1, 2}

InitDictionary ==
    \E stepSize \in StepSizes :
       /\ dict = NewDictionary(stepSize)
       /\ maxmemory = DefaultMemory
       /\ evictionPolicy = "lru"
       /\ now = 0
       /\ store = <<>>
       /\ ttl = NewTTL
       /\ usage = NewUsage
       /\ currentMemoryUsed = 0
       /\ evictionPool = <<>>
       /\ operationCount = 0
       /\ stats = [hits |-> 0, misses |-> 0, evictions |-> 0, expirations |-> 0,
                   operations |-> 0]
       /\ ret = Ret("new", "", "", Null, FALSE)
       /\ events = <<>>
       /\ zs = NewZSet
       /\ zret = ZRet("new", "", 0, Null, 0, 0, Null, Null)

\* the variables a call on dict leaves alone
dictRest == <<zs, zret, ttl, usage, currentMemoryUsed, evictionPool, operationCount,
              stats, evictionPolicy, maxmemory, now, events>>

DictGet(key) ==
    LET r == Dictionary_get(dict, key) IN
    /\ dict' = r.d
    /\ ret' = Ret("get", key, "", r.val, FALSE)
    /\ UNCHANGED <<store, dictRest>>

DictSet(key, value) ==
    /\ dict' = Dictionary_set(dict, key, value)
    /\ store' = MapSet(store, key, value)
    /\ ret' = Ret("set", key, value, Null, FALSE)
    /\ UNCHANGED dictRest

DictDelete(key) ==
    LET r == Dictionary_delete(dict, key) IN
    /\ dict' = r.d
    /\ store' = MapDelete(store, key)
    /\ ret' = Ret("delete", key, "", Some(r.deleted), FALSE)
    /\ UNCHANGED dictRest

DictHas(key) ==
    LET r == Dictionary_has(dict, key) IN
    /\ dict' = r.d
    /\ ret' = Ret("has", key, "", Some(r.val), FALSE)
    /\ UNCHANGED <<store, dictRest>>

DictKeysCall ==
    LET r == Dictionary_keys(dict) IN
    /\ dict' = r.d
    /\ ret' = Ret("keys", "", "", r.val, FALSE)
    /\ UNCHANGED <<store, dictRest>>

DictSize ==
    /\ ret' = Ret("size", "", "", Some(Dictionary_size(dict)), FALSE)
    /\ UNCHANGED <<dict, store, dictRest>>

\* the calls that take a rehash step
DictStep ==
    \/ \E key \in DictKeys : DictGet(key)
    \/ \E key \in DictKeys, value \in DictValues : DictSet(key, value)
    \/ \E key \in DictKeys : DictDelete(key)
    \/ \E key \in DictKeys : DictHas(key)
    \/ DictKeysCall

NextDictionary ==
    \/ \E key \in DictKeys : DictGet(key)
    \/ \E key \in DictKeys, value \in DictValues : DictSet(key, value)
    \/ \E key \in DictKeys : DictDelete(key)
    \/ \E key \in DictKeys : DictHas(key)
    \/ DictKeysCall
    \/ DictSize

SpecDictionary == InitDictionary /\ [][NextDictionary]_vars /\ WF_vars(DictStep)

(***************************************************************************)
(* One ZSet on its own, driven through its whole interface.                *)
(***************************************************************************)

ZInit == Init

ZAdd(member, score, newLevel) ==
    LET r == ZSet_zadd(zs, member, score, newLevel) IN
    /\ zs' = r.z
    /\ zret' = ZRet("zadd", member, score, ZSet_zscore(zs, member), 0, 0, Null,
                    Some(r.added))
    /\ UNCHANGED <<cvars, dict>>

ZRem(member) ==
    LET r == ZSet_zrem(zs, member) IN
    /\ zs' = r.z
    /\ zret' = ZRet("zrem", member, 0, ZSet_zscore(zs, member), 0, 0, Null,
                    Some(r.removed))
    /\ UNCHANGED <<cvars, dict>>

ZScore(member) ==
    /\ zret' = ZRet("zscore", member, 0, Null, 0, 0, Null, ZSet_zscore(zs, member))
    /\ UNCHANGED zs
    /\ UNCHANGED <<cvars, dict>>

ZRank(member) ==
    /\ zret' = ZRet("zrank", member, 0, Null, 0, 0, Null, ZSet_zrank(zs, member))
    /\ UNCHANGED zs
    /\ UNCHANGED <<cvars, dict>>

ZRangeByScore(min, max, limit) ==
    /\ zret' = ZRet("zrangeByScore", "", 0, Null, min, max, limit,
                    ZSet_zrangeByScore(zs, min, max, limit))
    /\ UNCHANGED zs
    /\ UNCHANGED <<cvars, dict>>

ZNext ==
    \/ \E m \in Members, s \in Scores, l \in Levels : ZAdd(m, s, l)
    \/ \E m \in Members : ZRem(m)
    \/ \E m \in Members : ZScore(m)
    \/ \E m \in Members : ZRank(m)
    \/ \E min \in Scores, max \in Scores, lim \in Limits : ZRangeByScore(min, max, lim)

SpecZSet == ZInit /\ [][ZNext]_vars

(***************************************************************************)
(* Ordered collections: what the map and the skip list must agree on.      *)
(***************************************************************************)

\* (score, member) pairs in lexicographic order, members as JavaScript strings
PairLess(score1, member1, score2, member2) ==
    \/ score1 < score2
    \/ score1 = score2 /\ StrIndex(member1) < StrIndex(member2)

\* the nodes of the level-0 chain from x on, at most fuel of them
RECURSIVE Chain(_, _, _)
Chain(sl, x, fuel) ==
    IF x = NIL \/ fuel = 0 THEN <<>>
    ELSE <<x>> \o Chain(sl, sl.nodes[x].forward[0], fuel - 1)

\* the level-0 chain of z as a sequence of nodes
Level0(z) ==
    LET ids == Chain(z.skiplist, z.skiplist.nodes[HEADER].forward[0],
                     Cardinality(DOMAIN z.skiplist.nodes) + 1)
    IN [j \in 1..Len(ids) |-> z.skiplist.nodes[ids[j]]]

\* the (member, score) pairs of the map
MapPairs(z) == {<<m, z.dict[m]>> : m \in DOMAIN z.dict}

\* the number of pairs of the map below the pair of member m
RankOf(z, m) ==
    Cardinality({x \in DOMAIN z.dict : PairLess(z.dict[x], x, z.dict[m], m)})

\* the pairs of the map with min <= score <= max in ascending order, as
\* [member, score], cut to limit
RangeOf(z, min, max, limit) ==
    LET inRange == {m \in DOMAIN z.dict : min <= z.dict[m] /\ z.dict[m] <= max}
        below(m) == Cardinality({x \in inRange : PairLess(z.dict[x], x, z.dict[m], m)})
        n == IF limit = Null THEN Cardinality(inRange)
             ELSE Min2(limit[1], Cardinality(inRange))
    IN [j \in 1..n |-> LET m == CHOOSE x \in inRange : below(x) = j - 1
                       IN <<m, z.dict[m]>>]

ChainAgrees(z) ==
    LET chain == Level0(z) IN
    /\ {<<chain[j].member, chain[j].score>> : j \in 1..Len(chain)} = MapPairs(z)
    /\ \A i, j \in 1..Len(chain) : i # j => chain[i].member # chain[j].member
    /\ \A j \in 1..(Len(chain) - 1) :
          PairLess(chain[j].score, chain[j].member, chain[j + 1].score, chain[j + 1].member)
    /\ Len(chain) = ZSet_zcard(z)

\* C5: after any sequence of zadd and zrem, with any node levels drawn, the
\* member -> score map and the level-0 chain of the skip list hold the same
\* (member, score) pairs, no member is on the chain twice, the chain ascends
\* strictly in (score, member) order and its length is zcard.
C5_MapAndChainAgree == ChainAgrees(zs)

\* a score update has just moved a member of a three-member collection whose
\* list is two levels high
C5_Witness ==
    /\ zret.op = "zadd"
    /\ zret.old # Null /\ zret.old # Some(zret.score)
    /\ ZSet_zcard(zs) = 3
    /\ zs.skiplist.level = 2

\* C6: zrank(m) of a present member is the number of present pairs below
\* (score(m), m), equal scores ordered by member string, so the ranks are a
\* permutation of 0..N-1; zrank of an absent member is null.
C6_RankIsPosition ==
    /\ zret.op = "zrank" =>
          zret.val = IF zret.member \in DOMAIN zs.dict
                     THEN Some(RankOf(zs, zret.member)) ELSE Null
    /\ {ZSet_zrank(zs, m) : m \in DOMAIN zs.dict}
          = {Some(r) : r \in 0..(ZSet_zcard(zs) - 1)}

\* zrank has returned 1 for "ab", which shares its score with "a" and "b"
C6_Witness ==
    /\ zret.op = "zrank" /\ zret.member = "ab" /\ zret.val = Some(1)
    /\ DOMAIN zs.dict = Members
    /\ \A m \in Members : zs.dict[m] = zs.dict["ab"]

\* C8: a zadd of a present member with a different score leaves zscore at the
\* new score, the old pair off the skip list, the cardinality as it was, and
\* every member at the rank of the new (score, member) order.
C8_ScoreUpdate ==
    [][(zret'.op = "zadd" /\ zret'.old # Null /\ zret'.old # Some(zret'.score)) =>
         /\ ZSet_zscore(zs', zret'.member) = Some(zret'.score)
         /\ \A j \in 1..Len(Level0(zs')) :
               ~(/\ Level0(zs')[j].member = zret'.member
                 /\ Level0(zs')[j].score = zret'.old[1])
         /\ ZSet_zcard(zs') = ZSet_zcard(zs)
         /\ \A m \in DOMAIN zs'.dict : ZSet_zrank(zs', m) = Some(RankOf(zs', m))
         /\ zret'.val = Some(FALSE)]_vars

\* "a" has just been moved from score 1 to score 2, past "ab" and "b"
C8_Witness ==
    /\ zret.op = "zadd" /\ zret.member = "a"
    /\ zret.old = Some(1) /\ zret.score = 2
    /\ DOMAIN zs.dict = Members
    /\ ZSet_zrank(zs, "a") # Some(0)

\* C9: zrangeByScore(key, min, max, limit) returns the first limit pairs (all
\* of them without a limit) of the present pairs with min <= score <= max, in
\* ascending (score, member) order; on a missing key it returns the empty list.
C9_RangeByScore ==
    (ret.op = "zrangeByScore" /\ ~ret.err) =>
        ret.val = IF ret.key \in DOMAIN store
                  THEN RangeOf(store[ret.key].zval, ret.arg[1], ret.arg[2], ret.arg[3])
                  ELSE <<>>

\* a range query with limit 2 has cut a collection of three members, all in
\* range, two of them at the same score
C9_Witness ==
    /\ ret.op = "zrangeByScore" /\ ~ret.err
    /\ ret.key \in DOMAIN store
    /\ ret.arg = <<1, 2, Some(2)>>
    /\ Len(ret.val) = 2
    /\ ZSet_zcard(store[ret.key].zval) = 3
    /\ ret.val[1][2] = ret.val[2][2]

(***************************************************************************)
(* The cache: what a call may destroy and what it must return.             *)
(***************************************************************************)

\* the operations that read a key, and the result each gives for a missing key
Reads == {"get", "zscore", "zrank", "zrangeByScore", "zrem", "smembers"}

MissingResult(op) == IF op = "zrem" THEN Some(0) ELSE Null

\* the entry shape an operation requires
ShapeOf(op) ==
    IF op = "get" THEN "string"
    ELSE IF op \in {"sadd", "smembers"} THEN "set"
    ELSE "zset"

Destroyed(evs, key) == \E j \in 1..Len(evs) : evs[j].key = key /\ evs[j].live

\* C1: set(k, v) immediately followed by get(k) returns v, in every reachable
\* state of the cache.
C1_SetThenGet ==
    [][(ret.op = "set" /\ ret'.op = "get" /\ ret'.key = ret.key) =>
          ret'.val = Some(ret.arg)]_vars

\* C2: once now >= the deadline of k's TTL record, every read of k (get,
\* zscore, zrank, zrangeByScore, zrem, smembers) returns the missing-key
\* result, and when it returns k has no entry, no TTL record and no usage
\* metadata.
C2_ExpiredNeverObserved ==
    [][(ret'.op \in Reads /\ TTL_isExpired(ttl, ret'.key)) =>
          /\ ~ret'.err
          /\ ret'.val = MissingResult(ret'.op)
          /\ ret'.key \notin DOMAIN store'
          /\ ~TTL_has(ttl', ret'.key)
          /\ ret'.key \notin DOMAIN usage'.metadata]_vars

\* zrem has just read a key whose deadline had passed: the call destroyed the
\* live entry and returned 0
C2_Witness ==
    /\ ret.op = "zrem" /\ ret.val = Some(0)
    /\ \E j \in 1..Len(events) :
          /\ events[j].key = ret.key /\ events[j].cause = "expire"
          /\ events[j].live /\ events[j].due
    /\ ret.key \notin DOMAIN store

\* C3: no TTL path (passive check, lazy purge, active tick, threshold flush,
\* shutdown flush) destroys an entry unless, at that moment, its key has a TTL
\* record with deadline <= now.
C3_OnlyDueKeysExpire ==
    \A j \in 1..Len(events) :
        (events[j].cause = "expire" /\ events[j].live) => events[j].due

\* C4: an operation invoked on a live key of another shape fails with
\* WRONGTYPE and leaves the entries, their values, the TTL records, the usage
\* metadata, the memory counter and the eviction pool as they were.
C4_WrongTypeChangesNothing ==
    [][(/\ ret'.op \in Reads \cup {"zadd", "sadd"}
        /\ ret'.key \in DOMAIN store
        /\ ~TTL_isExpired(ttl, ret'.key)
        /\ store[ret'.key].type # ShapeOf(ret'.op)) =>
          /\ ret'.err
          /\ store' = store
          /\ ttl'.expirations = ttl.expirations
          /\ usage'.metadata = usage.metadata
          /\ currentMemoryUsed' = currentMemoryUsed
          /\ evictionPool' = evictionPool]_vars

\* the member -> score map of key's collection, empty if key holds none
DictOf(st, key) ==
    IF key \in DOMAIN st /\ st[key].type = "zset" THEN st[key].zval.dict ELSE <<>>

\* C7 as stated: zadd returns 1 exactly when the member was not in the
\* collection before the call (cardinality + 1) and 0 when it was (cardinality
\* unchanged); zrem returns 1 exactly when the member was present (cardinality
\* - 1) and 0 otherwise, after which the member has no score.
C7_AsStated ==
    [][/\ (ret'.op = "zadd" /\ ~ret'.err) =>
             /\ ret'.val = Some(IF ret'.arg[1] \in DOMAIN DictOf(store, ret'.key)
                                THEN 0 ELSE 1)
             /\ Cardinality(DOMAIN DictOf(store', ret'.key))
                  = Cardinality(DOMAIN DictOf(store, ret'.key)) + ret'.val[1]
       /\ (ret'.op = "zrem" /\ ~ret'.err) =>
             /\ ret'.val = Some(IF ret'.arg \in DOMAIN DictOf(store, ret'.key)
                                THEN 1 ELSE 0)
             /\ Cardinality(DOMAIN DictOf(store', ret'.key))
                  = Cardinality(DOMAIN DictOf(store, ret'.key)) - ret'.val[1]
             /\ ret'.arg \notin DOMAIN DictOf(store', ret'.key)]_vars

\* the map of key's collection as the call finds it once its own expiry
\* check, lazy purge and eviction pass are over: empty if they destroyed it
DictFound(st, evs, key) ==
    IF Destroyed(evs, key) THEN <<>> ELSE DictOf(st, key)

\* C7, amended: zadd and zrem report the change in cardinality of the
\* collection the call finds after its own expiry check, lazy purge and
\* eviction pass, which can destroy the key's collection: zadd returns 1
\* exactly when the member is not in that collection (a destroyed collection
\* is created anew and the member is new), zrem returns 1 exactly when it is,
\* and after zrem the member has no score.
C7_CardinalityChange ==
    [][/\ (ret'.op = "zadd" /\ ~ret'.err) =>
             /\ ret'.val = Some(IF ret'.arg[1] \in DOMAIN DictFound(store, events', ret'.key)
                                THEN 0 ELSE 1)
             /\ Cardinality(DOMAIN DictOf(store', ret'.key))
                  = Cardinality(DOMAIN DictFound(store, events', ret'.key)) + ret'.val[1]
             /\ DictOf(store', ret'.key)[ret'.arg[1]] = ret'.arg[2]
       /\ (ret'.op = "zrem" /\ ~ret'.err) =>
             /\ ret'.val = Some(IF ret'.arg \in DOMAIN DictFound(store, events', ret'.key)
                                THEN 1 ELSE 0)
             /\ Cardinality(DOMAIN DictOf(store', ret'.key))
                  = Cardinality(DOMAIN DictFound(store, events', ret'.key)) - ret'.val[1]
             /\ ret'.arg \notin DOMAIN DictOf(store', ret'.key)
       /\ (ret'.op = "zscore" /\ ~ret'.err) =>
             ret'.val = IF ret'.arg \in DOMAIN DictFound(store, events', ret'.key)
                        THEN Some(DictOf(store, ret'.key)[ret'.arg])
                        ELSE Null]_vars

\* zadd has returned 1 into a collection that its own eviction pass had just
\* destroyed
C7_Witness ==
    /\ ret.op = "zadd" /\ ret.val = Some(1)
    /\ \E j \in 1..Len(events) :
          /\ events[j].key = ret.key /\ events[j].cause = "evict"
          /\ events[j].live /\ events[j].memoryUsed >= 80
    /\ ZSet_zcard(store[ret.key].zval) = 1

\* C10: a set, zadd or sadd invoked while currentMemoryUsed > maxmemory and
\* the dictionary is non-empty evicts at least one entry before it returns;
\* with an empty dictionary it completes without evicting.
C10_EvictsWhenOver ==
    [][(ret'.op \in {"set", "zadd", "sadd"} /\ currentMemoryUsed > maxmemory) =>
          IF DOMAIN store # {}
          THEN /\ stats'.evictions > stats.evictions
               /\ \E j \in 1..Len(events') :
                     events'[j].cause = "evict" /\ events'[j].live
          ELSE stats'.evictions = stats.evictions]_vars

(***************************************************************************)
(* The memory counter.                                                     *)
(***************************************************************************)

\* the sum of entry.memoryUsed over the entries of the keys ks
RECURSIVE SumMemory(_, _)
SumMemory(st, ks) ==
    IF ks = {} THEN 0
    ELSE LET k == CHOOSE x \in ks : TRUE
         IN st[k].memoryUsed + SumMemory(st, ks \ {k})

\* C11: currentMemoryUsed >= 0 in every reachable state, whatever sequence of
\* set, del, zadd, zrem, sadd, expirations and evictions led to it.
C11_MemoryNonNegative == currentMemoryUsed >= 0

\* C12: in every reachable state currentMemoryUsed equals the sum of
\* entry.memoryUsed over all entries of the dictionary.
C12_MemoryIsSum == currentMemoryUsed = SumMemory(store, DOMAIN store)

(***************************************************************************)
(* del and set.                                                            *)
(***************************************************************************)

\* C13: del(k) returns 1 exactly when k has an entry and 0 otherwise; when it
\* returns k has no entry, no TTL record and no usage metadata; a del of a key
\* without an entry, the second of two del(k) in a row among them, returns 0
\* and leaves the dictionary, the TTL map, the usage metadata, the memory
\* counter and the eviction pool as they were.
C13_DelIdempotent ==
    [][ret'.op = "del" =>
          /\ ret'.val = Some(IF ret'.key \in DOMAIN store THEN 1 ELSE 0)
          /\ ret'.key \notin DOMAIN store'
          /\ ~TTL_has(ttl', ret'.key)
          /\ ret'.key \notin DOMAIN usage'.metadata
          /\ (ret.op = "del" /\ ret.key = ret'.key) => ret'.val = Some(0)
          /\ ret'.val = Some(0) =>
                /\ store' = store
                /\ ttl' = ttl
                /\ usage' = usage
                /\ currentMemoryUsed' = currentMemoryUsed
                /\ evictionPool' = evictionPool]_vars

\* del has returned 1 for a key that had an entry and a TTL record
C13_Witness ==
    /\ ret.op = "del" /\ ret.val = Some(1)
    /\ Len(events) = 1
    /\ events[1].cause = "del" /\ events[1].key = ret.key
    /\ events[1].live /\ events[1].hadTtl
    /\ ret.key \notin DOMAIN store

\* C14: set(k, v, px) never fails with WRONGTYPE and leaves k with a scalar
\* entry holding v, whatever entry k had before; with px > 0 the TTL record of
\* k is now + px afterwards, with px omitted or <= 0 k has no TTL record
\* afterwards.
C14_SetReplaces ==
    [][\A key \in Keys, value \in Values, px \in Pxs, inc \in Incs :
          Cache_set(key, value, px, inc) =>
             /\ ~ret'.err
             /\ key \in DOMAIN store'
             /\ store'[key].type = "string"
             /\ store'[key].sval = value
             /\ IF px # Null /\ px[1] > 0
                THEN /\ TTL_has(ttl', key)
                     /\ TTL_getExpiration(ttl', key) = now + px[1]
                ELSE ~TTL_has(ttl', key)]_vars

\* set has just written a key that had a TTL record before (the record was
\* sampled as expired into the pending buffer) and has none now
C14_Witness ==
    /\ ret.op = "set"
    /\ store[ret.key].type = "string"
    /\ ~TTL_has(ttl, ret.key)
    /\ SeqHas(ttl.pendingDeletes, ret.key)

(***************************************************************************)
(* Member sets.                                                            *)
(***************************************************************************)

\* the members of a sequence, as a set
Range(seq) == {seq[j] : j \in 1..Len(seq)}

SetEntries(st) == {k \in DOMAIN st : st[k].type = "set"}

\* the member set the call finds under key once its own expiry check, lazy
\* purge and eviction pass are over: a new compact set if they destroyed it
\* or if there was none
SetFound(st, evs, key) ==
    IF key \in SetEntries(st) /\ ~Destroyed(evs, key)
    THEN [elems |-> st[key].elems, encoding |-> st[key].encoding]
    ELSE [elems |-> <<>>, encoding |-> "intset"]

\* the compact form holds integers only, strictly ascending, at most the cap
CompactOk(st) ==
    \A k \in SetEntries(st) :
        st[k].encoding = "intset" =>
           /\ \A j \in 1..Len(st[k].elems) : st[k].elems[j].int
           /\ \A i, j \in 1..Len(st[k].elems) :
                 i < j => st[k].elems[i].n < st[k].elems[j].n
           /\ Len(st[k].elems) <= IntSetMaxSize

MembersOf(st, key) == IF key \in SetEntries(st) THEN Range(st[key].elems) ELSE {}

\* C16 as stated: sadd returns the number of distinct supplied members that
\* were not in the set before the call, the growth of its cardinality, and the
\* set afterwards is the union of its members before the call and the supplied
\* ones, each once.
C16_AsStated ==
    [][(ret'.op = "sadd" /\ ~ret'.err) =>
          LET before == MembersOf(store, ret'.key)
              supplied == Range(ret'.arg)
              after == store'[ret'.key].elems
          IN /\ ret'.val = Some(Cardinality(supplied \ before))
             /\ Len(after) = Cardinality(before) + ret'.val[1]
             /\ Range(after) = before \cup supplied
             /\ Cardinality(Range(after)) = Len(after)]_vars

\* C16, amended: sadd counts against the set the call finds after its own
\* expiry check, lazy purge and eviction pass, which can destroy the key's
\* set: it returns the number of distinct supplied members not in that set,
\* the growth of its cardinality, and leaves the union of the two, each
\* member once, with or without an encoding upgrade; smembers returns the
\* members of the set it finds, each once.
C16_CountAdded ==
    [][/\ (ret'.op = "sadd" /\ ~ret'.err) =>
             LET found == Range(SetFound(store, events', ret'.key).elems)
                 supplied == Range(ret'.arg)
                 after == store'[ret'.key].elems
             IN /\ ret'.val = Some(Cardinality(supplied \ found))
                /\ Len(after) = Cardinality(found) + ret'.val[1]
                /\ Range(after) = found \cup supplied
                /\ Cardinality(Range(after)) = Len(after)
       /\ (ret'.op = "smembers" /\ ~ret'.err) =>
             LET found == SetFound(store, events', ret'.key).elems
             IN /\ Range(ret'.val) = Range(found)
                /\ Len(ret'.val) = Cardinality(Range(found))]_vars

\* sadd(key, 1, "s") on the compact set {1}: the call upgraded the encoding
\* and counted one new member
C16_Witness ==
    /\ ret.op = "sadd" /\ ret.val = Some(1)
    /\ ret.arg = <<IntMember(1), OtherMember("s")>>
    /\ store[ret.key].encoding = "hashtable"
    /\ store[ret.key].elems = <<IntMember(1), OtherMember("s")>>
    /\ events = <<>>

(***************************************************************************)
(* Missing keys.                                                           *)
(***************************************************************************)

\* the result of an operation on a key without an entry: 0 for zrem and del,
\* null or the empty list for the others
NotFoundResult(op) == IF op \in {"zrem", "del"} THEN Some(0) ELSE Null

\* the step is a call of a reading operation or del on a key without an entry
OnMissingKey == ret'.op \in Reads \cup {"del"} /\ ret'.key \notin DOMAIN store

\* the call returned the missing-key result without raising, and the key has
\* no entry, no TTL record and no usage metadata afterwards
NotFoundAnswer ==
    /\ ~ret'.err
    /\ ret'.val = NotFoundResult(ret'.op)
    /\ ret'.key \notin DOMAIN store'
    /\ ~TTL_has(ttl', ret'.key)
    /\ ret'.key \notin DOMAIN usage'.metadata

\* C17 as stated: an operation on a missing key does not raise, returns the
\* missing-key result, creates no entry, and leaves the dictionary, the TTL
\* map, the usage metadata and the memory counter unchanged.
C17_AsStated ==
    [][OnMissingKey =>
          /\ NotFoundAnswer
          /\ store' = store
          /\ ttl'.expirations = ttl.expirations
          /\ usage'.metadata = usage.metadata
          /\ currentMemoryUsed' = currentMemoryUsed]_vars

\* the memory subtracted by the destructions evs[j..]
RECURSIVE FreedMemory(_, _)
FreedMemory(evs, j) ==
    IF j > Len(evs) THEN 0 ELSE evs[j].memoryUsed + FreedMemory(evs, j + 1)

\* f without the keys that evs destroyed
Surviving(f, evs) == [k \in {x \in DOMAIN f : ~Destroyed(evs, x)} |-> f[k]]

\* C17, amended: an operation on a missing key does not raise, returns the
\* missing-key result and creates no entry, TTL record or usage metadata for
\* the key; the dictionary, the TTL map, the usage metadata and the memory
\* counter change only by the entries that the lazy purge of the call, run on
\* every LAZY_EXPIRE_FREQ-th key check, destroys as expired, and not at all
\* when it destroys none.
C17_MissingKey ==
    [][OnMissingKey =>
          /\ NotFoundAnswer
          /\ \A j \in 1..Len(events') : events'[j].cause = "expire"
          /\ store' = Surviving(store, events')
          /\ ttl'.expirations =
                SelectSeq(ttl.expirations, LAMBDA e : ~Destroyed(events', e.key))
          /\ usage'.metadata = Surviving(usage.metadata, events')
          /\ currentMemoryUsed' = currentMemoryUsed - FreedMemory(events', 1)]_vars

\* a read of a missing key has returned the missing-key result while its lazy
\* purge destroyed the expired entry of another key
C17_Witness ==
    /\ ret.op \in Reads /\ ~ret.err /\ ret.val = NotFoundResult(ret.op)
    /\ ret.key \notin DOMAIN store
    /\ Len(events) > 0
    /\ \A j \in 1..Len(events) : events[j].key # ret.key /\ events[j].cause = "expire"
    /\ \E j \in 1..Len(events) : events[j].live /\ events[j].due

(***************************************************************************)
(* The statistics.                                                         *)
(***************************************************************************)

\* C18: hits, misses, evictions, expirations and operations never decrease,
\* whatever operation, timer firing or clock step is taken.
C18_StatsMonotone ==
    [][/\ stats'.hits >= stats.hits
       /\ stats'.misses >= stats.misses
       /\ stats'.evictions >= stats.evictions
       /\ stats'.expirations >= stats.expirations
       /\ stats'.operations >= stats.operations]_vars

\* shutdown has run on a cache that has counted a hit, a miss and an
\* expiration
C18_Witness ==
    /\ ret.op = "shutdown"
    /\ stats.hits > 0 /\ stats.misses > 0 /\ stats.expirations > 0
    /\ stats.operations = MaxOps

\* C19: a get that does not fail with WRONGTYPE adds one to exactly one of
\* hits and misses: to hits when it returns the stored value, to misses when
\* it returns null; the hitRate of getStats is hits / (hits + misses), and 0
\* when both are zero.
C19_HitOrMiss ==
    [][/\ (ret'.op = "get" /\ ~ret'.err) =>
             IF ret'.val # Null
             THEN /\ stats'.hits = stats.hits + 1
                  /\ stats'.misses = stats.misses
                  /\ ret'.key \in DOMAIN store
                  /\ ret'.val = Some(store[ret'.key].sval)
             ELSE /\ stats'.misses = stats.misses + 1
                  /\ stats'.hits = stats.hits
                  /\ ret'.key \notin DOMAIN store'
       /\ ret'.op = "getStats" =>
             LET rate == ret'.val[1].hitRate IN
             IF stats.hits + stats.misses = 0 THEN rate[1] = 0 /\ rate[2] # 0
             ELSE /\ rate[2] # 0
                  /\ rate[1] * (stats.hits + stats.misses) = stats.hits * rate[2]]_vars

\* getStats reports a hit rate of 1/2 after a get that missed: one hit and one
\* miss are counted
C19_Witness ==
    /\ ret.op = "getStats"
    /\ stats.hits = 1 /\ stats.misses = 1
    /\ ret.val[1].hitRate = <<1, 2>>

\* the public data operations
DataOps == {"set", "get", "del", "zadd", "zrem", "zscore", "zrank", "zrangeByScore",
            "sadd", "smembers"}

\* C20: every public data operation adds exactly one to operations, also when
\* it fails with WRONGTYPE or finds the key missing; getStats and shutdown
\* leave operations as it is, and the keyCount of getStats is the number of
\* dictionary entries.
C20_OperationsCounted ==
    [][/\ ret'.op \in DataOps => stats'.operations = stats.operations + 1
       /\ ret'.op \in {"getStats", "shutdown"} => stats'.operations = stats.operations
       /\ ret'.op = "getStats" =>
             /\ ret'.val[1].operations = stats.operations
             /\ ret'.val[1].keyCount = Cardinality(DOMAIN store)]_vars

\* the second call of a client has failed with WRONGTYPE and has been counted
C20_Witness ==
    /\ ret.op \in DataOps /\ ret.err
    /\ stats.operations = 2
    /\ Cardinality(DOMAIN store) = 1

(***************************************************************************)
(* Expiration: the counter, shutdown, the active timer.                    *)
(***************************************************************************)

\* the destructions of evs that removed a live entry for the given cause
Removed(evs, cause) == {j \in 1..Len(evs) : evs[j].cause = cause /\ evs[j].live}

\* C21: the expirations counter grows, in every step, by the number of live
\* entries that the step removes from the dictionary by TTL expiration, each
\* of them expired: no increment without the removal of a live expired entry,
\* and no key counted twice for one expiry.
C21_ExpirationsCounted ==
    [][/\ stats'.expirations
             = stats.expirations + Cardinality(Removed(events', "expire"))
       /\ \A j \in Removed(events', "expire") : events'[j].due]_vars

\* C22: shutdown leaves the pending-delete buffer empty and both timers
\* stopped; once a timer is stopped it stays stopped and its callback never
\* runs again; a shutdown right after a shutdown changes no component of the
\* cache; after shutdown set still stores the value and get still answers,
\* with the stored value when it returns one.
C22_Shutdown ==
    [][/\ ret'.op = "shutdown" =>
             /\ ttl'.pendingDeletes = <<>>
             /\ ~ttl'.interval
             /\ ~usage'.decayTimer
       /\ ~ttl.interval => (~ttl'.interval /\ ret'.op # "activeExpire")
       /\ ~usage.decayTimer => (~usage'.decayTimer /\ ret'.op # "decay")
       /\ (ret.op = "shutdown" /\ ret'.op = "shutdown") =>
             UNCHANGED <<store, ttl, usage, currentMemoryUsed, evictionPool,
                         operationCount, stats>>
       /\ (~ttl.interval /\ ret'.op = "set") =>
             /\ ret'.key \in DOMAIN store'
             /\ store'[ret'.key].type = "string"
             /\ store'[ret'.key].sval = ret'.arg
       /\ (~ttl.interval /\ ret'.op = "get") =>
             /\ ret'.err => (ret'.key \in DOMAIN store /\ store[ret'.key].type # "string")
             /\ ret'.val # Null => /\ ret'.key \in DOMAIN store
                                   /\ ret'.val = Some(store[ret'.key].sval)]_vars

\* shutdown has flushed an expired entry and stopped the timers of an lfu
\* cache whose decay timer had fired (a key was decayed after its last access)
C22_Witness ==
    /\ ret.op = "shutdown"
    /\ evictionPolicy = "lfu"
    /\ ~ttl.interval /\ ~usage.decayTimer
    /\ ttl.pendingDeletes = <<>>
    /\ \E j \in 1..Len(events) : events[j].live
    /\ \E k \in DOMAIN usage.metadata :
          usage.metadata[k].lastDecay > usage.metadata[k].lastAccess

\* key has an entry whose TTL deadline has passed
ExpiredEntry(key) == key \in DOMAIN store /\ TTL_isExpired(ttl, key)

\* key has no entry, no TTL record and no usage metadata
Purged(key) ==
    /\ key \notin DOMAIN store
    /\ ~TTL_has(ttl, key)
    /\ key \notin DOMAIN usage.metadata

\* C23: while the expiration timer keeps firing, every entry whose deadline
\* has passed is eventually removed together with its TTL record and usage
\* metadata, also when no operation touches the key again (the only other way
\* out is a set that writes the key anew).
C23_ActiveExpiration ==
    \A key \in Keys :
        ExpiredEntry(key) ~> (Purged(key) \/ (key \in DOMAIN store /\ ~ExpiredEntry(key)))

\* the timer has removed an expired entry that the client never read
C23_Witness ==
    /\ ret.op = "activeExpire"
    /\ stats.hits + stats.misses = 0
    /\ \E j \in 1..Len(events) :
          /\ events[j].cause = "expire" /\ events[j].live /\ events[j].due
          /\ Purged(events[j].key)

(***************************************************************************)
(* Eviction.                                                               *)
(***************************************************************************)

\* C24: called in any reachable state, with a fresh, a partly used or a stale
\* eviction pool, _evictIfNeeded terminates, and every cache it can leave
\* behind has currentMemoryUsed <= maxmemory or an empty dictionary.
C24_EvictPostcondition ==
    \A c1 \in Cache_evictIfNeeded(CacheState) :
        c1.currentMemoryUsed <= maxmemory \/ DOMAIN c1.store = {}

(***************************************************************************)
(* The skip list: spans.                                                   *)
(***************************************************************************)

\* the sum of span[l] along the level-l chain from node x on
RECURSIVE SpanSum(_, _, _, _)
SpanSum(sl, x, l, fuel) ==
    IF x = NIL \/ fuel = 0 THEN 0
    ELSE sl.nodes[x].span[l] + SpanSum(sl, sl.nodes[x].forward[l], l, fuel - 1)

\* C25: after any sequence of insert and delete, with any node levels drawn,
\* on every level below the list's current level the spans along the chain
\* from the header, the last node's included, add up to the list length; the
\* current level is 1 or the header has a node ahead on the top level.
C25_SpanSum ==
    LET sl == zs.skiplist IN
    /\ \A l \in 0..(sl.level - 1) :
          SpanSum(sl, HEADER, l, Cardinality(DOMAIN sl.nodes) + 1) = sl.length
    /\ sl.level >= 1
    /\ sl.level = 1 \/ sl.nodes[HEADER].forward[sl.level - 1] # NIL

\* zrem has removed a member from a two-level list: two members remain and
\* the header's top-level pointer skips the first of them
C25_Witness ==
    /\ zret.op = "zrem" /\ zret.val = Some(TRUE)
    /\ zs.skiplist.level = 2
    /\ zs.skiplist.length = 2
    /\ zs.skiplist.nodes[HEADER].span[1] = 2

(***************************************************************************)
(* C26: every destruction of an entry, by del, by passive or active        *)
(* expiration or by eviction, lowers currentMemoryUsed by exactly the      *)
(* entry's memoryUsed and removes the key's TTL record and usage metadata  *)
(* in the same step.                                                       *)
(***************************************************************************)
\* operations that change the memory counter only by destroying entries
DestroyOnlyOps ==
    {"get", "del", "zscore", "zrank", "zrangeByScore", "smembers",
     "shutdown", "activeExpire"}

\* the memory counter right after the j-th destruction of the step, where the
\* step lets it be read: the next destruction starts from it, and a step of
\* DestroyOnlyOps ends with it
MemoryAfter(evs, j, final) == IF j < Len(evs) THEN evs[j + 1].memoryBefore ELSE final

Skipped(evs) == {j \in 1..Len(evs) : evs[j].cause = "stale"}

C27_VictimValidation ==
    [][/\ stats'.evictions = stats.evictions + Cardinality(Removed(events', "evict"))
       /\ \A j \in 1..Len(events') :
             /\ events'[j].cause = "evict" => events'[j].live
             /\ j \in Skipped(events') =>
                   /\ ~events'[j].live
                   /\ j < Len(events') =>
                         events'[j + 1].memoryBefore = events'[j].memoryBefore]_vars

\* an eviction pass has popped a key that del or expiration had removed
C27_Witness ==
    /\ Skipped(events) # {}
    /\ ret.op \in {"set", "zadd"}
    /\ stats.evictions = 0

(***************************************************************************)
(* C28: a refill of the pool samples distinct live keys, at most           *)
(* min(2 x evictionSampleSize, key count) of them, and keeps the first     *)
(* dynamicPoolSize of them in sorted order: with the metadata at refill    *)
(* time, under lru each pool key has lastAccess <= that of every later     *)
(* pool key and of every sampled key left out, and under lfu the same for  *)
(* (freq, lastAccess) compared lexicographically.                          *)
(***************************************************************************)
\* a is at least as good a candidate as b
NotAfter(a, b) ==
    IF evictionPolicy = "lru" THEN a.lastAccess <= b.lastAccess
    ELSE \/ a.freq < b.freq
         \/ a.freq = b.freq /\ a.lastAccess <= b.lastAccess

\* the refill r of the cache c is as stated
RefillOk(c, r) ==
    LET meta == c.usage.metadata
        cap == dynamicPoolSize(c)
        n == Len(r.samples)
    IN /\ \A i, j \in 1..n : i # j => r.samples[i] # r.samples[j]
       /\ Range(r.samples) \subseteq DOMAIN c.store \cap DOMAIN meta
       /\ n <= Min2(2 * evictionSampleSize, Cardinality(DOMAIN c.store))
       /\ Len(r.pool) = Min2(n, cap)
       /\ \A i \in 1..Len(r.pool) :
             /\ r.pool[i] = r.samples[i]
             /\ \A j \in (i + 1)..n : NotAfter(meta[r.pool[i]], meta[r.samples[j]])

\* a set whose eviction pass starts by refilling the empty pool
Refilling ==
    /\ ret'.op = "set"
    /\ evictionPool = <<>>
    /\ currentMemoryUsed > maxmemory
    /\ DOMAIN store # {}

\* s is t without its first n elements, for some n
IsSuffix(s, t) == \E n \in 0..Len(t) : s = SubSeq(t, n + 1, Len(t))

\* Every refill that the pass can draw is as stated, and when the pass evicts
\* one key, that key is the head of the pool of one of them and what the pass
\* leaves in the pool comes from the rest of that pool.
C28_RefillOrder ==
    [][Refilling =>
         \E c \in {CacheState} : \E refills \in {Refills(c)} :
            /\ \A r \in refills : RefillOk(c, r)
            /\ stats'.evictions = stats.evictions + 1 =>
                  \E r \in refills :
                     /\ events'[1].cause = "evict" /\ events'[1].key = Head(r.pool)
                     /\ IsSuffix(evictionPool', Tail(r.pool))]_vars

\* a refill under lfu has left a sampled key out of the pool, and the keys
\* that remain in the pool differ in freq
C28_Witness ==
    /\ ret.op = "set"
    /\ evictionPolicy = "lfu"
    /\ stats.evictions = 1
    /\ Len(evictionPool) = dynamicPoolSize(CacheState) - 1
    /\ Cardinality(DOMAIN store) >= dynamicPoolSize(CacheState)
    /\ \E a, b \in Range(evictionPool) \cap DOMAIN usage.metadata :
          usage.metadata[a].freq < usage.metadata[b].freq

(***************************************************************************)
(* C29: IntSet.add(v) returns 'upgrade' when v is not an integer;          *)
(* otherwise false when v is already stored, even if the set is at its     *)
(* cap; otherwise 'upgrade' when size = cap; otherwise it inserts v at its *)
(* sorted position and returns true.  Whenever the result is not true the  *)
(* stored array is unchanged.                                              *)
(***************************************************************************)
\* the arrays of the IntSets that the cache holds
IntSets ==
    {[i \in 1..Len(store[key].elems) |-> store[key].elems[i].n] :
        key \in {k \in DOMAIN store :
                    store[k].type = "set" /\ store[k].encoding = "intset"}}

Ascending(data) == \A i, j \in 1..Len(data) : i < j => data[i] < data[j]

\* the result that the protocol prescribes for add(v) on data
AddResult(data, v) ==
    IF ~v.int THEN "upgrade"
    ELSE IF v.n \in Range(data) THEN "false"
    ELSE IF Len(data) = IntSetMaxSize THEN "upgrade"
    ELSE "true"

C29_AddProtocol ==
    \A data \in IntSets : \A v \in SetMembers :
       \E r \in {IntSet_add(data, v)} :
          /\ r.result = AddResult(data, v)
          /\ r.result # "true" => r.data = data
          /\ r.result = "true" =>
                /\ Len(r.data) = Len(data) + 1
                /\ Range(r.data) = Range(data) \cup {v.n}
                /\ Ascending(r.data)
                /\ \A i, j \in 1..Len(data) :
                      i < j => \E h, l \in 1..Len(r.data) :
                                  h < l /\ r.data[h] = data[i] /\ r.data[l] = data[j]

\* a sadd of stored integers to an IntSet at its cap: nothing was added and
\* the entry is still an IntSet
C29_Witness ==
    /\ ret.op = "sadd" /\ ~ret.err /\ ret.val = Some(0)
    /\ Len(ret.arg) > 0
    /\ \A j \in 1..Len(ret.arg) : ret.arg[j].int
    /\ ret.key \in DOMAIN store
    /\ store[ret.key].encoding = "intset"
    /\ Len(store[ret.key].elems) = IntSetMaxSize

(***************************************************************************)
(* C30: a zadd that adds a new member raises both entry.memoryUsed and     *)
(* currentMemoryUsed by len(member)*2 + 80, a zrem that removes a member   *)
(* lowers both by the same amount, and a zadd that only updates a score    *)
(* changes neither, for every member of every collection, the member the   *)
(* collection was created with included (so that zadd of a new member      *)
(* followed by zrem of it restores both values).                           *)
(***************************************************************************)
\* what the key's entry holds before the call gets to it: nothing when there
\* is no entry or the call has just destroyed it as expired or evicted it
EntryMemoryBefore(key) ==
    IF key \in DOMAIN store /\ ~Destroyed(events', key)
    THEN store[key].memoryUsed ELSE 0

\* the change stated above for the call that has just returned
MemberDelta ==
    IF ret'.val # Some(1) THEN 0
    ELSE IF ret'.op = "zadd" THEN Len(ret'.arg[1]) * 2 + 80
    ELSE 0 - (Len(ret'.arg) * 2 + 80)

C30_SymmetricDeltas ==
    [][(ret'.op \in {"zadd", "zrem"} /\ ~ret'.err /\ ret'.key \in DOMAIN store') =>
         /\ store'[ret'.key].memoryUsed = EntryMemoryBefore(ret'.key) + MemberDelta
         /\ currentMemoryUsed'
               = currentMemoryUsed - FreedMemory(events', 1) + MemberDelta]_vars

(***************************************************************************)
(* C31: every sadd raises entry.memoryUsed and currentMemoryUsed by 8 for  *)
(* each integer it adds while the set is in the compact form and by 40 for *)
(* each member it adds while the set is in the general form, also when the *)
(* encoding upgrade of the call comes after members that it added in the   *)
(* compact form.                                                           *)
(***************************************************************************)
\* the charge prescribed for members[j..], added one by one to the set acc
RECURSIVE SaddCharge(_, _, _)
SaddCharge(acc, members, j) ==
    IF j > Len(members) THEN 0
    ELSE LET next == SaddLoop(acc, <<members[j]>>, 1) IN
         (IF next.addedCount = acc.addedCount THEN 0
          ELSE IF next.encoding = "intset" THEN 8 ELSE 40)
         + SaddCharge(next, members, j + 1)

C31_SaddDeltas ==
    [][(ret'.op = "sadd" /\ ~ret'.err) =>
         LET key == ret'.key
             isNew == ~(key \in SetEntries(store) /\ ~Destroyed(events', key))
             found == SetFound(store, events', key)
             created == IF isNew THEN Len(key) * 2 ELSE 0
             base == IF isNew THEN created ELSE store[key].memoryUsed
             charge == SaddCharge([elems |-> found.elems, encoding |-> found.encoding,
                                   addedCount |-> 0], ret'.arg, 1)
         IN /\ store'[key].memoryUsed = base + charge
            /\ currentMemoryUsed'
                  = currentMemoryUsed - FreedMemory(events', 1) + created + charge]_vars

(***************************************************************************)
(* C32: sampleAndPurge(k, onExpire) visits at most k keys; it invokes      *)
(* onExpire during the call if and only if the pending-delete buffer has   *)
(* reached the flush threshold, and then for every buffered key, after     *)
(* which the buffer is empty; otherwise it deletes no key and the buffer   *)
(* only grows.  On return the buffer holds fewer entries than the          *)
(* threshold, and a call on an empty TTL map returns 0 and changes         *)
(* nothing.                                                                *)
(***************************************************************************)
\* the largest k of the calls examined
MaxSample == 5

\* s is the beginning of t
IsPrefix(s, t) == Len(s) <= Len(t) /\ s = SubSeq(t, 1, Len(s))

\* the call sampleAndPurge(k, onExpire) on the cache c behaves as stated
SampleAndPurgeOk(c, k) ==
    \E r \in {TTL_sampleAndPurge(c, k)} :
       LET before == c.ttl.pendingDeletes
           after == r.c.ttl.pendingDeletes
           buffered == Len(before) + r.expiredCount
       IN /\ r.expiredCount <= k
          /\ Len(after) < PendingFlushAt
          /\ Len(c.ttl.expirations) = 0 => r.expiredCount = 0 /\ r.c = c
          /\ Len(c.ttl.expirations) > 0 =>
                IF buffered >= PendingFlushAt
                THEN /\ Len(r.c.events) = buffered
                     /\ \A j \in 1..Len(r.c.events) : r.c.events[j].cause = "expire"
                     /\ IsPrefix(before, [j \in 1..buffered |-> r.c.events[j].key])
                     /\ \A j \in 1..buffered : r.c.events[j].key \notin DOMAIN r.c.store
                     /\ after = <<>>
                ELSE /\ r.c.events = <<>>
                     /\ r.c.store = c.store
                     /\ r.c.ttl.expirations = c.ttl.expirations
                     /\ r.c.stats = c.stats
                     /\ r.c.currentMemoryUsed = c.currentMemoryUsed
                     /\ IsPrefix(before, after)
                     /\ Len(after) = buffered

C32_BatchedDeletion ==
    /\ Len(ttl.pendingDeletes) < PendingFlushAt
    /\ \E c \in {CacheState} : \A k \in 0..MaxSample : SampleAndPurgeOk(c, k)

\* a timer tick in which sampleAndPurge has flushed a full buffer
C32_Witness ==
    /\ ret.op = "activeExpire"
    /\ Len(events) >= PendingFlushAt
    /\ ttl.pendingDeletes = <<>>
    /\ \E j \in 1..Len(events) : events[j].live

(***************************************************************************)
(* C33: a tick of the expiration timer runs no round when the TTL map is   *)
(* empty and otherwise between 1 and maxRounds (2) rounds of               *)
(* sampleAndPurge with sample size min(sampleSize, size of the TTL map),   *)
(* sampleSize being 10; a round after the first is run only if the round   *)
(* before it found expired > 0.25 x sampled.                               *)
(***************************************************************************)
\* the round that a tick runs on the cache c, which has a TTL record
Round(c) == TTL_sampleAndPurge(c, Min2(10, Len(c.ttl.expirations)))

\* the step has left the cache as c has it
LeftAs(c) ==
    /\ store' = c.store /\ ttl' = c.ttl /\ stats' = c.stats
    /\ currentMemoryUsed' = c.currentMemoryUsed /\ events' = c.events

C33_AdaptiveTick ==
    [][ret'.op = "activeExpire" =>
         \E c \in {CacheState} :
            IF Len(c.ttl.expirations) = 0
            THEN ret'.val = Some(0) /\ LeftAs(c)
            ELSE \E r1 \in {Round(c)} :
                   LET sampled == Min2(10, Len(c.ttl.expirations)) IN
                   /\ ret'.val \in {Some(1), Some(2)}
                   /\ ret'.val = Some(1) => LeftAs(r1.c)
                   /\ ret'.val = Some(2) =>
                         /\ r1.expiredCount * 4 > sampled
                         /\ Len(r1.c.ttl.expirations) > 0
                         /\ LeftAs(Round(r1.c).c)]_vars

\* a tick has run a second round, the first having found expired keys
C33_Witness ==
    /\ ret.op = "activeExpire"
    /\ ret.val = Some(2)

(***************************************************************************)
(* C34: the lazy purge sampleAndPurge(5, cb) is run on every               *)
(* LAZY_EXPIRE_FREQ-th public operation, that is, exactly when the         *)
(* operations counter reaches a multiple of LAZY_EXPIRE_FREQ, whatever mix *)
(* of set, get, del, zadd, zrem, sadd and reads made up the operations.    *)
(***************************************************************************)
\* the step has taken the branch of _checkExpired that runs the lazy purge
LazyPurgeRan ==
    /\ operationCount' # operationCount
    /\ operationCount' % LAZY_EXPIRE_FREQ = 0

C34_PurgeCadence ==
    [][ret'.op \in DataOps =>
         (LazyPurgeRan <=> stats'.operations % LAZY_EXPIRE_FREQ = 0)]_vars

(***************************************************************************)
(* C35: usage.touch(key) is called exactly once by every operation that    *)
(* successfully reads or writes the entry of key (get, zscore, zrank,      *)
(* zrangeByScore, zrem, smembers on a live entry of the right shape; set,  *)
(* zadd, sadd), and not by an operation that finds the key missing or      *)
(* expired, which therefore creates no usage metadata.                     *)
(***************************************************************************)
\* the call that has just returned reached the entry of its key
ReachedEntry ==
    /\ ret'.op \in Reads \cup {"set", "zadd", "sadd"}
    /\ ~ret'.err
    /\ ret'.key \in DOMAIN store'

\* what one touch() at the present time makes of the metadata of key, a new key
\* starting at freq 0, where the draw always increments under lfu
TouchedOnce(before, key) ==
    LET meta == usage'.metadata[key] IN
    /\ meta.lastAccess = now
    /\ IF key \in DOMAIN before
       THEN /\ meta.freq \in (IF evictionPolicy = "lfu"
                               THEN {before[key].freq, before[key].freq + 1}
                               ELSE {before[key].freq})
            /\ meta.lastDecay = before[key].lastDecay
       ELSE /\ meta.freq = (IF evictionPolicy = "lfu" THEN 1 ELSE 0)
            /\ meta.lastDecay = now

C35_TouchOnce ==
    [][ret'.op \in DataOps =>
         LET key == ret'.key
             before == Surviving(usage.metadata, events')
         IN /\ ReachedEntry =>
                  /\ key \in DOMAIN usage'.metadata
                  /\ TouchedOnce(before, key)
            /\ (ret'.op \in Reads /\ key \notin DOMAIN store') =>
                  key \notin DOMAIN usage'.metadata
            /\ \A k \in (DOMAIN usage'.metadata \cup DOMAIN before) \ {key} :
                  /\ k \in DOMAIN usage'.metadata /\ k \in DOMAIN before
                  /\ usage'.metadata[k] = before[k]]_vars

\* a read has reached a live entry and its one draw has raised freq to 2
C35_Witness ==
    /\ ret.op \in Reads /\ ~ret.err
    /\ ret.key \in DOMAIN store
    /\ ret.key \in DOMAIN usage.metadata
    /\ usage.metadata[ret.key].freq = 2
    /\ usage.metadata[ret.key].lastAccess = now

(***************************************************************************)
(* C36: for every key and every sequence of touches and decay ticks,       *)
(* 0 <= freq <= 255; a touch raises freq by at most 1 and never when freq  *)
(* is 255; a decay tick lowers freq by decayAmount, but never below 0, and *)
(* only for entries with now - lastDecay >= decayInterval; under the lru   *)
(* policy freq stays 0, and lastAccess of a key never decreases.           *)
(***************************************************************************)
\* freq of key before the step, 0 for a key without metadata
FreqBefore(key) == IF key \in DOMAIN usage.metadata THEN usage.metadata[key].freq ELSE 0

C36_CounterBounds ==
    [][/\ \A k \in DOMAIN usage'.metadata :
             /\ usage'.metadata[k].freq \in 0..255
             /\ evictionPolicy = "lru" => usage'.metadata[k].freq = 0
             /\ k \in DOMAIN usage.metadata =>
                   usage'.metadata[k].lastAccess >= usage.metadata[k].lastAccess
       /\ ret'.op = "touch" =>
             /\ usage'.metadata[ret'.key].freq - FreqBefore(ret'.key) \in {0, 1}
             /\ FreqBefore(ret'.key) = 255 => usage'.metadata[ret'.key].freq = 255
             /\ \A k \in DOMAIN usage'.metadata \ {ret'.key} :
                   k \in DOMAIN usage.metadata
                   /\ usage'.metadata[k] = usage.metadata[k]
       /\ ret'.op = "decay" =>
             /\ DOMAIN usage'.metadata = DOMAIN usage.metadata
             /\ \A k \in DOMAIN usage.metadata :
                   IF now - usage.metadata[k].lastDecay >= DecayInterval
                   THEN usage'.metadata[k] =
                          [usage.metadata[k] EXCEPT
                             !.freq = Max2(0, @ - decayAmount), !.lastDecay = now]
                   ELSE usage'.metadata[k] = usage.metadata[k]]_vars

\* a touch has found the counter at 255 and left it there
C36_Witness ==
    /\ ret.op = "touch"
    /\ evictionPolicy = "lfu"
    /\ usage.metadata[ret.key].freq = 255
    /\ usage.metadata[ret.key].lastAccess = now
    /\ now > 0

(***************************************************************************)
(* C37: the Dictionary with incremental rehash behaves as a plain map      *)
(* under any sequence of get/set/delete/has/keys, before, during and after *)
(* a migration: get(k) returns the value of the last set(k, .) not         *)
(* followed by delete(k), has and delete agree with it, size is the number *)
(* of live keys, keys() lists each live key exactly once, no key is in     *)
(* both tables, and a started migration completes after finitely many      *)
(* operations.  Each operation's rehash step migrates at most              *)
(* rehashStepSize entries; a set during a migration moves, on top of       *)
(* them, the entry of the key it writes from the old table to the new one. *)
(***************************************************************************)
KeysOf(m) == {m[j].key : j \in 1..Len(m)}

NewTable(d) == IF d.ht1 = Null THEN <<>> ELSE d.ht1[1]

\* what the two tables hold, as one map
Contents(d) ==
    [k \in KeysOf(d.ht0) \cup KeysOf(NewTable(d)) |->
        IF Map_has(NewTable(d), k) THEN Map_get(NewTable(d), k)[1]
        ELSE Map_get(d.ht0, k)[1]]

\* store is the plain map: the tables hold what it holds, each key once
Refines ==
    /\ Contents(dict) = store
    /\ KeysOf(dict.ht0) \cap KeysOf(NewTable(dict)) = {}
    /\ Len(dict.ht0) = Cardinality(KeysOf(dict.ht0))
    /\ Len(NewTable(dict)) = Cardinality(KeysOf(NewTable(dict)))
    /\ Dictionary_size(dict) = Cardinality(DOMAIN store)
    /\ isRehashing(dict) <=> dict.ht1 # Null

\* every call returns what the plain map returns
PlainResults ==
    /\ ret'.op = "get" =>
          ret'.val = IF ret'.key \in DOMAIN store THEN Some(store[ret'.key]) ELSE Null
    /\ ret'.op = "has" => ret'.val = Some(ret'.key \in DOMAIN store)
    /\ ret'.op = "delete" => ret'.val = Some(ret'.key \in DOMAIN store)
    /\ ret'.op = "keys" =>
          /\ Range(ret'.val) = DOMAIN store
          /\ Len(ret'.val) = Cardinality(DOMAIN store)
    /\ ret'.op = "size" => ret'.val = Some(Cardinality(DOMAIN store))

\* the keys that were in the old table before the call and are not in it
\* after: the old table is ht0 while the same migration goes on
LeftOldTable ==
    IF dict' = dict \/ dict'.rehashidx > dict.rehashidx
    THEN KeysOf(dict.ht0) \ KeysOf(dict'.ht0)
    ELSE KeysOf(dict.ht0)

\* the keys of them that the call has put into the new table
Migrated == LeftOldTable \ (IF ret'.op = "delete" THEN {ret'.key} ELSE {})

Completes ==
    /\ (isRehashing(dict) /\ dict.rehashidx = 0) ~> (dict.rehashidx # 0)
    /\ (dict.rehashidx > 0) ~> (dict.rehashidx <= 0)

C37_PlainMap ==
    /\ []Refines
    /\ [][/\ PlainResults
          /\ isRehashing(dict) =>
                Cardinality(Migrated \ (IF ret'.op = "set" THEN {ret'.key} ELSE {}))
                   <= dict.rehashStepSize]_vars
    /\ Completes

\* as stated: an operation moves at most rehashStepSize entries in all
C37_StepBound ==
    /\ []Refines
    /\ [][/\ PlainResults
          /\ isRehashing(dict) => Cardinality(Migrated) <= dict.rehashStepSize]_vars
    /\ Completes

\* in the middle of a migration, get has found a migrated key in the new table
C37_Witness ==
    /\ ret.op = "get"
    /\ isRehashing(dict)
    /\ dict.ht0 # <<>>
    /\ Map_has(NewTable(dict), ret.key)
    /\ ret.val = Some(store[ret.key])
    /\ dict.rehashidx > 0

(***************************************************************************)
(* C38: bounded overshoot.  When a write operation (set, zadd, sadd)       *)
(* returns, currentMemoryUsed <= maxmemory + the memory that the operation *)
(* added to the entry it wrote, and that entry is in the dictionary; read  *)
(* operations and del never increase currentMemoryUsed.                    *)
(***************************************************************************)
Writes == {"set", "zadd", "sadd"}

\* the memory of the entry under the written key when the mutation began
WrittenBefore ==
    IF ret'.key \in DOMAIN store /\ ~Destroyed(events', ret'.key)
    THEN store[ret'.key].memoryUsed ELSE 0

C38_BoundedOvershoot ==
    [][/\ (ret'.op \in Writes /\ ~ret'.err) =>
             /\ ret'.key \in DOMAIN store'
             /\ currentMemoryUsed'
                   <= maxmemory + (store'[ret'.key].memoryUsed - WrittenBefore)
       /\ ret'.op \in {"get", "zscore", "zrank", "zrangeByScore", "smembers", "del"} =>
             currentMemoryUsed' <= currentMemoryUsed]_vars

(***************************************************************************)
(* C39: referential integrity.  After every public operation and every     *)
(* background tick, the keys with usage metadata are the keys of the       *)
(* dictionary, and every key with a TTL record has a dictionary entry,     *)
(* which is a scalar (string) entry.                                       *)
(***************************************************************************)
TtlKeys(t) == {t.expirations[j].key : j \in 1..Len(t.expirations)}

C39_ReferentialIntegrity ==
    /\ DOMAIN usage.metadata = DOMAIN store
    /\ \A k \in TtlKeys(ttl) : k \in DOMAIN store /\ store[k].type = "string"

\* an eviction has destroyed an entry with a TTL record while another entry
\* keeps its own
C39_Witness ==
    /\ \E j \in 1..Len(events) : events[j].cause = "evict" /\ events[j].hadTtl
    /\ TtlKeys(ttl) # {}
    /\ Cardinality(DOMAIN store) = 2

(***************************************************************************)
(* C40: the expired count returned by one call of sampleAndPurge(k,        *)
(* onExpire) never exceeds the number of keys in the TTL map whose         *)
(* deadline has passed, and the call appends each such key to the          *)
(* pending-delete buffer at most once, for every k and every cursor        *)
(* position, k larger than the map size included.                          *)
(***************************************************************************)
\* the keys of the TTL map whose deadline has passed
ExpiredKeys(t) ==
    {t.expirations[j].key : j \in {x \in 1..Len(t.expirations) : now >= t.expirations[x].at}}

\* the keys that the call with result r appended to the buffer of c, in
\* order: they follow the keys buffered before, in the buffer or, when the
\* call flushed it, in the deletions of the flush
Appended(c, r) ==
    LET n == Len(c.ttl.pendingDeletes)
        all == IF r.c.events # <<>>
               THEN [j \in 1..Len(r.c.events) |-> r.c.events[j].key]
               ELSE r.c.ttl.pendingDeletes
    IN SubSeq(all, n + 1, Len(all))

SampleCountOk(c, k) ==
    \E r \in {TTL_sampleAndPurge(c, k)} :
       /\ r.expiredCount <= Cardinality(ExpiredKeys(c.ttl))
       /\ \E app \in {Appended(c, r)} :
             \A i, j \in 1..Len(app) : app[i] = app[j] => i = j

C40_SampleCount ==
    \E c \in {CacheState} : \A k \in 0..MaxSample : SampleCountOk(c, k)

====
